---- MODULE Spec2Model ----
(***************************************************************************)
(* Engine protocol client of Chess-Analyzer.                               *)
(*                                                                         *)
(*   StockfishClient (src/src/engine/stockfish.ts)  -- the session: lazy   *)
(*       worker creation, id-keyed pending map, promise-chain FIFO.        *)
(*   stockfish.worker.ts -- the line router: handshake, waiters with       *)
(*       timeouts, the analyze exchange.                                   *)
(*   The UCI engine behind the router is the environment: it answers the   *)
(*       commands it is sent, in order, after an arbitrary delay.          *)
(*                                                                         *)
(* Every action is one JavaScript task (a message handler, a timer, an     *)
(* API call) together with the promise reactions it triggers.              *)
(*                                                                         *)
(* classifyMove (src/src/engine/stockfish.ts) is a pure function; it is    *)
(* applied to one input per behaviour in SpecClassify.                     *)
(***************************************************************************)
EXTENDS Integers, Sequences, FiniteSets, TLC

\* ---------------------------------------------------------------- bounds
\* API calls (init, analyzePosition) made in a run.
MaxCalls == 2
\* Worker objects created in a run; dispose() is taken while one more may be.
MaxWorkers == 2
\* info lines the engine writes during one search.
MaxInfo == 1

Fens == {"f1", "f2"}
Scores == {10}
NoFen == "none"

\* Mate distances of the mate scores handed to classifyMove.
MaxMate == 3

\* An optional value is <<>> (undefined) or <<v>>.
Undefined == <<>>
Pvs == {"e2e4 e7e5"}
Depths == {12}
Movetimes == {500}
\* options?.movetimeMs ?? 1000
DefaultMovetimeMs == 1000
NoOptions == [depth |-> Undefined, movetimeMs |-> Undefined]
AnalyzeOptions ==
  [depth : {Undefined} \cup {<<d>> : d \in Depths},
   movetimeMs : {Undefined} \cup {<<m>> : m \in Movetimes}]

VARIABLES
  \* StockfishClient fields
  worker,       \* 0 = null, otherwise the number of the Worker object
  nextId,
  pending,      \* keys of the pending map
  queue,        \* tasks chained on this.queue whose callback has not run yet
  running,      \* the call whose task holds this.queue pending (0 = settled)
  initDone,
  \* message channels client <-> worker
  inbox,
  outbox,
  \* stockfish.worker.ts module state
  initPromise,
  joiners,      \* requests suspended in `await initEngine()`
  lineWaiters,
  timers,       \* waiters whose setTimeout is armed
  nextWid,
  latestScore,
  latestPv,
  \* the engine behind engineWorker
  engOut,       \* lines the engine has written, not yet handled
  engPos,
  engSearch,
  engInfos,
  \* bookkeeping of the run
  gens,         \* Worker objects created so far
  mt,           \* promise reactions of dispose() still to run
  calls,        \* the API calls made so far and their promises
  trace,        \* transport log of the current worker
  seen,         \* what the info lines handled since the last cache reset carried
  resolvedW,
  rejectedW,
  reSettled,
  \* classifyMove: one call and what it returned
  input,
  output,
  \* the App component
  ui

clientVars == <<worker, nextId, pending, queue, running, initDone, gens, mt, calls>>
chanVars == <<inbox, outbox>>
workerVars == <<initPromise, joiners, lineWaiters, timers, nextWid, latestScore, latestPv>>
engineVars == <<engOut, engPos, engSearch, engInfos>>
ghostVars == <<trace, seen, resolvedW, rejectedW, reSettled>>
classifyVars == <<input, output>>
appVars == <<ui>>
vars == <<clientVars, chanVars, workerVars, engineVars, ghostVars, classifyVars, appVars>>

\* ------------------------------------------------------------- records
Range(s) == {s[i] : i \in 1..Len(s)}

NoSearch == [fen |-> NoFen, req |-> 0]
NullScore == [type |-> "null", value |-> 0]
NoneSeen == [score |-> FALSE, pv |-> FALSE, scoreOf |-> 0, pvOf |-> 0]
DefaultScore == [type |-> "cp", value |-> 0]

\* A command on the wire to the engine; go carries its limit (mode, n).
Cmd(c, fen, req) == [cmd |-> c, fen |-> fen, req |-> req, mode |-> "", n |-> 0]
Go(mode, n, req) == [Cmd("go", NoFen, req) EXCEPT !.mode = mode, !.n = n]
\* A line of the engine: its first word (kind), whether more words follow it
\* (arg) and whether it ends in whitespace (space).  fen and req name the
\* search a bestmove line reports; they stand for the move it carries.
Line(k, fen, req, score) ==
  [kind |-> k, arg |-> k \in {"bestmove", "info"}, space |-> FALSE,
   fen |-> fen, req |-> req, score |-> score, pv |-> Undefined]
\* String.prototype.trim on a line.
Trim(line) == [line EXCEPT !.space = FALSE]
NullMove == "0000"
Req(id, type, fen, options) ==
  [id |-> id, type |-> type, fen |-> fen, options |-> options]
\* bestmove stands for the move the engine found for that position.  go (the
\* request whose go command started that search), via (the kind of line that
\* ended the wait), hs (the handshake of this worker that let the request
\* through or failed it) and seen (what the info lines handled during the
\* exchange carried) are bookkeeping, not part of the message.
Resp(id, type, bestmove, go, via, score, err) ==
  [id |-> id, type |-> type, bestmove |-> bestmove, go |-> go, via |-> via,
   score |-> score, principalVariation |-> Undefined, err |-> err, hs |-> 0,
   seen |-> NoneSeen]
Call(kind, fen, options) ==
  [kind |-> kind, fen |-> fen, options |-> options,
   st |-> "new", initId |-> 0, reqId |-> 0,
   bestmove |-> NoFen, go |-> 0, via |-> "", score |-> NullScore,
   principalVariation |-> Undefined, err |-> "", seen |-> NoneSeen,
   waited |-> FALSE, hs |-> 0, gen |-> 0]

\* ===================================================== stockfish.worker.ts
\* The module state of the worker as one record, so that the promise
\* reactions of one task compose: s -> s.
WorkerState ==
  [initPromise |-> initPromise, joiners |-> joiners, lineWaiters |-> lineWaiters,
   timers |-> timers, nextWid |-> nextWid, latestScore |-> latestScore,
   latestPv |-> latestPv,
   engOut |-> engOut, engPos |-> engPos, engSearch |-> engSearch,
   engInfos |-> engInfos, outbox |-> outbox, trace |-> trace, seen |-> seen,
   resolvedW |-> resolvedW, rejectedW |-> rejectedW, reSettled |-> reSettled]

SetWorkerState(s) ==
  /\ initPromise' = s.initPromise
  /\ joiners' = s.joiners
  /\ lineWaiters' = s.lineWaiters
  /\ timers' = s.timers
  /\ nextWid' = s.nextWid
  /\ latestScore' = s.latestScore
  /\ latestPv' = s.latestPv
  /\ engOut' = s.engOut
  /\ engPos' = s.engPos
  /\ engSearch' = s.engSearch
  /\ engInfos' = s.engInfos
  /\ outbox' = s.outbox
  /\ trace' = s.trace
  /\ seen' = s.seen
  /\ resolvedW' = s.resolvedW
  /\ rejectedW' = s.rejectedW
  /\ reSettled' = s.reSettled

Log(s, what, req) == [s EXCEPT !.trace = Append(@, Cmd(what, NoFen, req))]

Count(log, what) == Cardinality({i \in 1..Len(log) : log[i].cmd = what})

postResponse(s, response) ==
  Log([s EXCEPT !.outbox = Append(@, [response EXCEPT !.hs = Count(s.trace, "uci")])],
      ">" \o response.type, response.id)

\* The engine reads a command.  A UCI engine answers uci with uciok and
\* isready with readyok; stop ends a running search, which then reports its
\* bestmove; go searches the position set last.
EngineRead(s, c) ==
  CASE c.cmd = "uci" ->
         [s EXCEPT !.engOut = Append(@, Line("uciok", NoFen, 0, NullScore))]
    [] c.cmd = "isready" ->
         [s EXCEPT !.engOut = Append(@, Line("readyok", NoFen, 0, NullScore))]
    [] c.cmd = "ucinewgame" -> s
    [] c.cmd = "stop" ->
         IF s.engSearch = NoSearch THEN s
         ELSE [s EXCEPT !.engOut = Append(@, Line("bestmove", s.engSearch.fen,
                                                  s.engSearch.req, NullScore)),
                        !.engSearch = NoSearch]
    [] c.cmd = "position" -> [s EXCEPT !.engPos = c.fen]
    [] c.cmd = "go" ->
         [s EXCEPT !.engSearch = [fen |-> s.engPos, req |-> c.req], !.engInfos = 0]

\* engineWorker.postMessage(command).  The engine's commands are handed over
\* in order; the delay of the engine lies between its writing a line and the
\* worker's handling it (engOut).
postCommand(s, command) ==
  EngineRead([s EXCEPT !.trace = Append(@, command)], command)

\* parseInfoLine: only lines that start with "info " are mined; a score and
\* a pv found in the line overwrite the cache.
parseInfoLine(s, line) ==
  IF ~(line.kind = "info" /\ (line.arg \/ line.space)) THEN s
  ELSE LET s1 == IF line.score.type # "null"
                 THEN [s EXCEPT !.latestScore = line.score] ELSE s
       IN IF line.pv # Undefined THEN [s1 EXCEPT !.latestPv = line.pv] ELSE s1

\* A bestmove predicate that lets any line through.
MatchesLoose(match, line) == match = "bestmove" \/ line.kind = match

\* The three predicates handed to waitForLine: line === "uciok",
\* line === "readyok", line.startsWith("bestmove ").
Matches(match, line) ==
  CASE match = "uciok" -> line.kind = "uciok" /\ ~line.arg /\ ~line.space
    [] match = "readyok" -> line.kind = "readyok" /\ ~line.arg /\ ~line.space
    [] match = "bestmove" -> line.kind = "bestmove" /\ (line.arg \/ line.space)

\* parseBestMove: the second field of the line split at whitespace.
parseBestMove(line) ==
  IF line.arg THEN line.fen
  ELSE IF line.space THEN ""
  ELSE NullMove

\* waitForLine: arm the timer, push the waiter.  cont names the code that
\* awaits the returned promise, req the request that code works for.
waitForLine(s, match, cont, req) ==
  LET waiter == [wid |-> s.nextWid, match |-> match, cont |-> cont, req |-> req]
  IN [s EXCEPT !.lineWaiters = Append(@, waiter),
               !.timers = @ \cup {waiter},
               !.nextWid = @ + 1]

\* An exchange that starts with the cache of the previous one.
ExchangeKeepCache(s, msg) ==
  LET s0 == [s EXCEPT !.seen = NoneSeen]
      depth == msg.options.depth
      movetimeMs == IF msg.options.movetimeMs # Undefined
                    THEN msg.options.movetimeMs[1] ELSE DefaultMovetimeMs
      s1 == postCommand(s0, Cmd("stop", NoFen, msg.id))
      s2 == postCommand(s1, Cmd("position", msg.fen, msg.id))
      s3 == IF depth # Undefined
            THEN postCommand(s2, Go("depth", depth[1], msg.id))
            ELSE postCommand(s2, Go("movetime", movetimeMs, msg.id))
  IN waitForLine(s3, "bestmove", "analyze", msg.id)

\* An exchange in which a given movetimeMs wins over a given depth.
ExchangeMovetimeFirst(s, msg) ==
  LET s0 == [s EXCEPT !.latestScore = NullScore, !.latestPv = Undefined,
                      !.seen = NoneSeen]
      o == msg.options
      s1 == postCommand(s0, Cmd("stop", NoFen, msg.id))
      s2 == postCommand(s1, Cmd("position", msg.fen, msg.id))
      s3 == IF o.movetimeMs # Undefined
            THEN postCommand(s2, Go("movetime", o.movetimeMs[1], msg.id))
            ELSE IF o.depth # Undefined
                 THEN postCommand(s2, Go("depth", o.depth[1], msg.id))
                 ELSE postCommand(s2, Go("movetime", DefaultMovetimeMs, msg.id))
  IN waitForLine(s3, "bestmove", "analyze", msg.id)

\* analyzePosition after `await initEngine()`: reset the cache, send the
\* exchange, wait for the result terminator.
Exchange(s, msg) ==
  LET s0 == [s EXCEPT !.latestScore = NullScore, !.latestPv = Undefined,
                      !.seen = NoneSeen]
      depth == msg.options.depth
      movetimeMs == IF msg.options.movetimeMs # Undefined
                    THEN msg.options.movetimeMs[1] ELSE DefaultMovetimeMs
      s1 == postCommand(s0, Cmd("stop", NoFen, msg.id))
      s2 == postCommand(s1, Cmd("position", msg.fen, msg.id))
      s3 == IF depth # Undefined
            THEN postCommand(s2, Go("depth", depth[1], msg.id))
            ELSE postCommand(s2, Go("movetime", movetimeMs, msg.id))
  IN waitForLine(s3, "bestmove", "analyze", msg.id)

\* analyzePosition after the bestmove line arrived, and self.onmessage's
\* postResponse({...result, id}).
ExchangeDone(s, waiter, line) ==
  postResponse(s, [Resp(waiter.req, "analyze:ok", parseBestMove(line), line.req,
                        line.kind,
                        IF s.latestScore = NullScore THEN DefaultScore ELSE s.latestScore,
                        "")
                     EXCEPT !.principalVariation = s.latestPv, !.seen = s.seen])

\* self.onmessage after `await initEngine()` returned for msg.
Resume(s, msg) ==
  IF msg.type = "init"
  THEN postResponse(s, Resp(msg.id, "init:ok", NoFen, 0, "", NullScore, ""))
  ELSE Exchange(s, msg)

\* self.onmessage's catch for msg.
Fail(s, msg, label) ==
  postResponse(s, Resp(msg.id, "error", NoFen, 0, "", NullScore, label))

RECURSIVE ResumeAll(_, _)
ResumeAll(s, msgs) ==
  IF msgs = <<>> THEN s ELSE ResumeAll(Resume(s, Head(msgs)), Tail(msgs))

RECURSIVE FailAll(_, _, _)
FailAll(s, msgs, label) ==
  IF msgs = <<>> THEN s ELSE FailAll(Fail(s, Head(msgs), label), Tail(msgs), label)

\* A handshake that does not wait for uciok before probing readiness.
HandshakeStartEager(s) ==
  waitForLine(postCommand(postCommand([s EXCEPT !.initPromise = "pending"],
                                      Cmd("uci", NoFen, 0)),
                          Cmd("isready", NoFen, 0)),
              "readyok", "hs2", 0)

\* The body of the memoized handshake, cut at its awaits.
HandshakeStart(s) ==
  waitForLine(postCommand([s EXCEPT !.initPromise = "pending"], Cmd("uci", NoFen, 0)),
              "uciok", "hs1", 0)

HandshakeStep2(s) ==
  waitForLine(postCommand(s, Cmd("isready", NoFen, 0)), "readyok", "hs2", 0)

HandshakeStep3(s) ==
  waitForLine(postCommand(postCommand(s, Cmd("ucinewgame", NoFen, 0)),
                          Cmd("isready", NoFen, 0)),
              "readyok", "hs3", 0)

\* initPromise fulfilled: every caller suspended on it continues, first the
\* one that started it, then the others in arrival order.
HandshakeDone(s) ==
  ResumeAll(Log([s EXCEPT !.initPromise = "resolved", !.joiners = <<>>], "handshake:ok", 0),
            s.joiners)

\* A failed handshake that stays memoized.
HandshakeFailedKeepMemo(s, label) ==
  FailAll([s EXCEPT !.joiners = <<>>], s.joiners, label)

\* initPromise rejected: the starter's catch clears the memo, every caller
\* answers its request with the error.
HandshakeFailed(s, label) ==
  FailAll([s EXCEPT !.initPromise = "null", !.joiners = <<>>], s.joiners, label)

\* initEngine without the memo check on a handshake in progress.
initEngineNoMemo(s, msg) ==
  IF s.initPromise = "resolved" THEN Resume(s, msg)
  ELSE HandshakeStart([s EXCEPT !.joiners = Append(@, msg)])

\* initEngine as called from self.onmessage / analyzePosition for msg.
initEngine(s, msg) ==
  IF s.initPromise = "resolved" THEN Resume(s, msg)
  ELSE IF s.initPromise = "pending" THEN [s EXCEPT !.joiners = Append(@, msg)]
  ELSE HandshakeStart([s EXCEPT !.joiners = Append(@, msg)])

\* The code that awaits a waiter's promise, resumed with the line.
Continue(s, waiter, line) ==
  LET s1 == Log(s, "<" \o line.kind, waiter.req)
  IN CASE waiter.cont = "hs1" -> HandshakeStep2(s1)
       [] waiter.cont = "hs2" -> HandshakeStep3(s1)
       [] waiter.cont = "hs3" -> HandshakeDone(s1)
       [] waiter.cont = "analyze" -> ExchangeDone(s1, waiter, line)

\* A timeout error that does not say what was awaited.
TimeoutMessageAnonymous(timeoutLabel) == "Timeout de Stockfish"

\* waitForLine's new Error(`Timeout esperando "${timeoutLabel}" de Stockfish`);
\* the label handed to waitForLine is the token its predicate looks for.
TimeoutMessage(timeoutLabel) == "Timeout esperando \"" \o timeoutLabel \o "\" de Stockfish"

\* The code that awaits a waiter's promise, resumed with the timeout error.
\* a timer whose callback removes the waiter and rejects nothing
AbortSilent(s, waiter) == Log(s, "!" \o waiter.match, waiter.req)

Abort(s, waiter) ==
  LET s1 == Log(s, "!" \o waiter.match, waiter.req)
  IN IF waiter.cont = "analyze"
     THEN Fail(s1, [id |-> waiter.req], TimeoutMessage(waiter.match))
     ELSE HandshakeFailed(s1, TimeoutMessage(waiter.match))

RECURSIVE ContinueAll(_, _, _)
ContinueAll(s, waiters, line) ==
  IF waiters = <<>> THEN s
  ELSE ContinueAll(Continue(s, Head(waiters), line), Tail(waiters), line)

\* A match that leaves the timer armed.
clearTimeoutNoop(ts, waiter) == ts

clearTimeout(ts, waiter) == ts \ {waiter}

Settled(s) == s.resolvedW \cup s.rejectedW

\* The loop of onEngineLine over the snapshot of lineWaiters.
RECURSIVE ResolveLoop(_, _)
ResolveLoop(s, matched) ==
  IF matched = <<>> THEN s
  ELSE LET w == Head(matched)
           s1 == [s EXCEPT !.timers = clearTimeout(@, w),
                           !.lineWaiters = SelectSeq(@, LAMBDA x : x # w),
                           !.resolvedW = @ \cup {w.wid},
                           !.reSettled = @ \/ w.wid \in Settled(s)]
       IN ResolveLoop(s1, Tail(matched))

\* An onEngineLine that stops at the first waiter whose predicate matches.
onEngineLineFirst(s, line) ==
  LET s1 == parseInfoLine(s, line)
      all == SelectSeq(s1.lineWaiters, LAMBDA w : Matches(w.match, line))
      matched == IF all = <<>> THEN all ELSE <<Head(all)>>
  IN ContinueAll(ResolveLoop(s1, matched), matched, line)

onEngineLine(s, line) ==
  LET s1 == parseInfoLine(s, line)
      matched == SelectSeq(s1.lineWaiters, LAMBDA w : Matches(w.match, line))
  IN ContinueAll(ResolveLoop(s1, matched), matched, line)

\* engineWorker.onmessage: the line is trimmed before it is routed.
engineWorkerOnmessage(s, data) ==
  LET s1 == IF data.kind = "info"
            THEN [s EXCEPT !.seen = [score |-> @.score \/ data.score # NullScore,
                                     pv |-> @.pv \/ data.pv # Undefined,
                                     scoreOf |-> IF data.score # NullScore THEN data.req
                                                 ELSE @.scoreOf,
                                     pvOf |-> IF data.pv # Undefined THEN data.req
                                              ELSE @.pvOf]]
            ELSE s
  IN onEngineLine(s1, Trim(data))

\* The setTimeout callback of waitForLine.
onTimeout(s, waiter) ==
  LET s1 == [s EXCEPT !.timers = @ \ {waiter},
                      !.lineWaiters = SelectSeq(@, LAMBDA x : x # waiter),
                      !.rejectedW = @ \cup {waiter.wid},
                      !.reSettled = @ \/ waiter.wid \in Settled(s)]
  IN IF waiter.wid \in Settled(s) THEN s1 ELSE Abort(s1, waiter)

\* ========================================================= stockfish.ts
ClientState ==
  [worker |-> worker, gens |-> gens, nextId |-> nextId, pending |-> pending,
   queue |-> queue, running |-> running, initDone |-> initDone,
   inbox |-> inbox, calls |-> calls]

SetClientState(s) ==
  /\ worker' = s.worker
  /\ gens' = s.gens
  /\ nextId' = s.nextId
  /\ pending' = s.pending
  /\ queue' = s.queue
  /\ running' = s.running
  /\ initDone' = s.initDone
  /\ inbox' = s.inbox
  /\ calls' = s.calls

ensureWorker(s) ==
  IF s.worker # 0 THEN s
  ELSE [s EXCEPT !.worker = s.gens + 1, !.gens = @ + 1]

request(s, message) ==
  LET s1 == ensureWorker(s)
  IN [s1 EXCEPT !.pending = @ \cup {message.id},
                !.inbox = Append(@, message)]

\* The callback chained on this.queue for call c: take an id, send analyze.
StartTask(s, c) ==
  request([s EXCEPT !.nextId = @ + 1,
                    !.running = c,
                    !.calls[c].reqId = s.nextId,
                    !.calls[c].st = "running"],
          Req(s.nextId, "analyze", s.calls[c].fen, s.calls[c].options))

\* Enqueue without the chain: the request is sent at once.
EnqueueUnchained(s, c) == StartTask(s, c)

\* analyzePosition after `await this.init()`: chain the task on this.queue.
\* Its callback runs at once when every earlier task has settled.
Enqueue(s, c) ==
  IF s.running = 0 /\ s.queue = <<>>
  THEN StartTask(s, c)
  ELSE [s EXCEPT !.queue = Append(@, c), !.calls[c].st = "queued",
                 !.calls[c].waited = TRUE]

\* this.queue settles with the running task: the next callback runs.
TaskSettled(s) ==
  IF s.queue = <<>> THEN [s EXCEPT !.running = 0]
  ELSE StartTask([s EXCEPT !.queue = Tail(@)], Head(s.queue))

\* The code after `await this.init()` of call c.
InitReturned(s, c) ==
  IF s.calls[c].kind = "init"
  THEN [s EXCEPT !.calls[c].st = "resolved"]
  ELSE Enqueue(s, c)

\* init() without the initDone shortcut.
initAlways(s, c) ==
  request([s EXCEPT !.nextId = @ + 1,
                    !.calls[c].initId = s.nextId,
                    !.calls[c].st = "initWait"],
          Req(s.nextId, "init", NoFen, NoOptions))

\* init() as called for call c (directly or from analyzePosition).
init(s, c) ==
  IF s.initDone THEN InitReturned(s, c)
  ELSE request([s EXCEPT !.nextId = @ + 1,
                         !.calls[c].initId = s.nextId,
                         !.calls[c].st = "initWait"],
               Req(s.nextId, "init", NoFen, NoOptions))

\* A rejected task that leaves this.queue unsettled.
RejectedStuck(s, c, err) ==
  [s EXCEPT !.calls[c].st = "rejected", !.calls[c].err = err]

\* pending.reject(new Error(msg.error)) for call c: init() or the task of
\* analyzePosition throws; a task that throws still settles this.queue.
Rejected(s, c, err) ==
  LET s1 == [s EXCEPT !.calls[c].st = "rejected", !.calls[c].err = err]
  IN IF s.calls[c].st = "running" THEN TaskSettled(s1) ELSE s1

\* The call whose promise is stored in the pending map under id.
Owner(s, id) ==
  CHOOSE c \in 1..Len(s.calls) :
    \/ s.calls[c].st = "initWait" /\ s.calls[c].initId = id
    \/ s.calls[c].st = "running" /\ s.calls[c].reqId = id

\* this.worker.onmessage
onmessage(s, msg) ==
  IF msg.id \notin s.pending THEN s
  ELSE LET c == Owner(s, msg.id)
           s1 == [s EXCEPT !.pending = @ \ {msg.id},
                           !.calls[c].hs = msg.hs,
                           !.calls[c].gen = s.worker]
       IN CASE msg.type = "error" -> Rejected(s1, c, msg.err)
            [] msg.type = "init:ok" ->
                 InitReturned([s1 EXCEPT !.initDone = TRUE], c)
            [] msg.type = "analyze:ok" ->
                 TaskSettled([s1 EXCEPT !.calls[c].st = "resolved",
                                        !.calls[c].bestmove = msg.bestmove,
                                        !.calls[c].go = msg.go,
                                        !.calls[c].via = msg.via,
                                        !.calls[c].score = msg.score,
                                        !.calls[c].principalVariation =
                                          msg.principalVariation,
                                        !.calls[c].seen = msg.seen])

\* dispose() that forgets to reset initDone.
disposeKeepInitDone(s) ==
  [s EXCEPT !.worker = 0,
            !.pending = {},
            !.running = 0,
            !.inbox = <<>>,
            !.calls = [c \in DOMAIN s.calls |->
                         IF \/ s.calls[c].st = "initWait" /\ s.calls[c].initId \in s.pending
                            \/ s.calls[c].st = "running" /\ s.calls[c].reqId \in s.pending
                         THEN [s.calls[c] EXCEPT !.st = "rejected", !.err = "closed"]
                         ELSE s.calls[c]]]

\* dispose() that starts the request ids over.
disposeResetIds(s) ==
  [s EXCEPT !.worker = 0,
            !.initDone = FALSE,
            !.nextId = 1,
            !.pending = {},
            !.running = 0,
            !.inbox = <<>>,
            !.calls = [c \in DOMAIN s.calls |->
                         IF \/ s.calls[c].st = "initWait" /\ s.calls[c].initId \in s.pending
                            \/ s.calls[c].st = "running" /\ s.calls[c].reqId \in s.pending
                         THEN [s.calls[c] EXCEPT !.st = "rejected", !.err = "closed"]
                         ELSE s.calls[c]]]

\* dispose(): the synchronous part.
dispose(s) ==
  [s EXCEPT !.worker = 0,
            !.initDone = FALSE,
            !.pending = {},
            !.running = 0,
            !.inbox = <<>>,
            !.calls = [c \in DOMAIN s.calls |->
                         IF \/ s.calls[c].st = "initWait" /\ s.calls[c].initId \in s.pending
                            \/ s.calls[c].st = "running" /\ s.calls[c].reqId \in s.pending
                         THEN [s.calls[c] EXCEPT !.st = "rejected", !.err = "closed"]
                         ELSE s.calls[c]]]

\* ========================================================= classifyMove
\* Numbers are counted in half centipawns, so that Math.round has halves to
\* round; Cp(n) is n centipawns, and a whole number of centipawns is even.
Cp(n) == 2 * n
IsInteger(x) == x % 2 = 0
\* Math.round: to the nearest integer, halves upwards.
MathRound(x) == 2 * ((x + 1) \div 2)
\* A Math.max that returns its second argument.
MathMaxSecond(a, b) == b
MathMax(a, b) == IF a >= b THEN a ELSE b

\* EvalInput = number | MateScore
Number(v) == [type |-> "number", value |-> v]
Mate(n) == [type |-> "mate", value |-> n]

LARGE_MATE_CP == 100000

OrElse(x, default) == IF x = Undefined THEN default ELSE x[1]
Other(sideToMove) == IF sideToMove = "w" THEN "b" ELSE "w"

\* An evalToWhiteCp that takes every mate score as a mate for the side to move.
evalToWhiteCpUnsigned(evalInput, sideToMove) ==
  LET cpFromSideToMove ==
        IF evalInput.type = "number" THEN evalInput.value ELSE Cp(LARGE_MATE_CP)
  IN IF sideToMove = "w" THEN cpFromSideToMove ELSE -cpFromSideToMove

evalToWhiteCp(evalInput, sideToMove) ==
  LET cpFromSideToMove ==
        IF evalInput.type = "number" THEN evalInput.value
        ELSE IF evalInput.value >= 0 THEN Cp(LARGE_MATE_CP) ELSE -Cp(LARGE_MATE_CP)
  IN IF sideToMove = "w" THEN cpFromSideToMove ELSE -cpFromSideToMove

\* A toMoverPerspective that leaves the sign as it is.
toMoverPerspectiveWhite(whiteCp, sideToMove) == whiteCp

toMoverPerspective(whiteCp, sideToMove) ==
  IF sideToMove = "w" THEN whiteCp ELSE -whiteCp

\* Thresholds whose BEST band excludes its upper bound.
thresholdClassificationStrict(deltaCp) ==
  IF deltaCp < Cp(10) THEN "BEST"
  ELSE IF deltaCp <= Cp(25) THEN "EXCELLENT"
  ELSE IF deltaCp <= Cp(60) THEN "GOOD"
  ELSE IF deltaCp <= Cp(120) THEN "INACCURACY"
  ELSE IF deltaCp <= Cp(300) THEN "MISTAKE"
  ELSE "BLUNDER"

\* Thresholds whose GOOD band ends at 50.
thresholdClassificationNarrow(deltaCp) ==
  IF deltaCp <= Cp(10) THEN "BEST"
  ELSE IF deltaCp <= Cp(25) THEN "EXCELLENT"
  ELSE IF deltaCp <= Cp(50) THEN "GOOD"
  ELSE IF deltaCp <= Cp(120) THEN "INACCURACY"
  ELSE IF deltaCp <= Cp(300) THEN "MISTAKE"
  ELSE "BLUNDER"

thresholdClassification(deltaCp) ==
  IF deltaCp <= Cp(10) THEN "BEST"
  ELSE IF deltaCp <= Cp(25) THEN "EXCELLENT"
  ELSE IF deltaCp <= Cp(60) THEN "GOOD"
  ELSE IF deltaCp <= Cp(120) THEN "INACCURACY"
  ELSE IF deltaCp <= Cp(300) THEN "MISTAKE"
  ELSE "BLUNDER"

severityRank(classification) ==
  CASE classification = "BLUNDER" -> 0
    [] classification = "MISTAKE" -> 1
    [] classification = "INACCURACY" -> 2
    [] classification = "GOOD" -> 3
    [] classification = "EXCELLENT" -> 4
    [] classification = "BEST" -> 5
    [] classification = "BRILLIANT" -> 6
    [] OTHER -> 0

\* A floor that leaves the classification as it is.
minSeverityKeep(current, target) == current

\* A floor that returns the better of the two.
minSeverityBetter(current, target) ==
  IF severityRank(current) > severityRank(target) THEN current ELSE target

minSeverity(current, target) ==
  IF severityRank(current) > severityRank(target) THEN target ELSE current

\* The three evaluations in the mover's perspective, as classifyMove
\* computes them.
bestMoverCp(in) ==
  toMoverPerspective(evalToWhiteCp(in.bestEvalAfter, Other(in.sideToMove)), in.sideToMove)
playedMoverCp(in) ==
  toMoverPerspective(evalToWhiteCp(in.playedEvalAfter, Other(in.sideToMove)), in.sideToMove)
beforeMoverCp(in) ==
  toMoverPerspective(evalToWhiteCp(in.evalBefore, in.sideToMove), in.sideToMove)

\* A classification whose BRILLIANT upgrade asks for both a clearly good
\* position and an improvement.
ClassificationBothNeeded(in, deltaCp) ==
  LET base == thresholdClassification(deltaCp)
      materialChangeCp == OrElse(in.materialChangeCp, 0)
      immediateMaterialDrop == materialChangeCp <= Cp(-100)
      floored == IF immediateMaterialDrop /\ deltaCp >= Cp(120)
                 THEN minSeverity(base, "MISTAKE") ELSE base
      escalated == IF immediateMaterialDrop /\ deltaCp > Cp(300)
                   THEN "BLUNDER" ELSE floored
      candidateBrilliant == escalated \in {"BEST", "EXCELLENT"}
      improvesAdvantage == playedMoverCp(in) - beforeMoverCp(in) >= Cp(80)
      clearlyGoodAfter == playedMoverCp(in) >= Cp(120)
  IN IF candidateBrilliant /\ OrElse(in.isSacrifice, FALSE)
        /\ (clearlyGoodAfter /\ improvesAdvantage)
     THEN "BRILLIANT" ELSE escalated

\* A classification whose material floor starts at a deltaCp of 61.
ClassificationEarlyFloor(in, deltaCp) ==
  LET base == thresholdClassification(deltaCp)
      materialChangeCp == OrElse(in.materialChangeCp, 0)
      immediateMaterialDrop == materialChangeCp <= Cp(-100)
      floored == IF immediateMaterialDrop /\ deltaCp > Cp(60)
                 THEN minSeverity(base, "MISTAKE") ELSE base
      escalated == IF immediateMaterialDrop /\ deltaCp > Cp(300)
                   THEN "BLUNDER" ELSE floored
      candidateBrilliant == escalated \in {"BEST", "EXCELLENT"}
      improvesAdvantage == playedMoverCp(in) - beforeMoverCp(in) >= Cp(80)
      clearlyGoodAfter == playedMoverCp(in) >= Cp(120)
  IN IF candidateBrilliant /\ OrElse(in.isSacrifice, FALSE)
        /\ (clearlyGoodAfter \/ improvesAdvantage)
     THEN "BRILLIANT" ELSE escalated

\* The classification of classifyMove once allowsMate is out of the way.
Classification(in, deltaCp) ==
  LET base == thresholdClassification(deltaCp)
      materialChangeCp == OrElse(in.materialChangeCp, 0)
      immediateMaterialDrop == materialChangeCp <= Cp(-100)
      floored == IF immediateMaterialDrop /\ deltaCp >= Cp(120)
                 THEN minSeverity(base, "MISTAKE") ELSE base
      escalated == IF immediateMaterialDrop /\ deltaCp > Cp(300)
                   THEN "BLUNDER" ELSE floored
      candidateBrilliant == escalated \in {"BEST", "EXCELLENT"}
      improvesAdvantage == playedMoverCp(in) - beforeMoverCp(in) >= Cp(80)
      clearlyGoodAfter == playedMoverCp(in) >= Cp(120)
  IN IF candidateBrilliant /\ OrElse(in.isSacrifice, FALSE)
        /\ (clearlyGoodAfter \/ improvesAdvantage)
     THEN "BRILLIANT" ELSE escalated

\* A classifyMove that does not look at allowsMate.
classifyMoveNoMate(in) ==
  LET deltaCp == MathMax(0, MathRound(bestMoverCp(in) - playedMoverCp(in)))
  IN [classification |-> Classification(in, deltaCp), deltaCp |-> deltaCp]

classifyMove(in) ==
  LET deltaCp == MathMax(0, MathRound(bestMoverCp(in) - playedMoverCp(in)))
  IN IF OrElse(in.allowsMate, FALSE)
     THEN [classification |-> "BLUNDER", deltaCp |-> deltaCp]
     ELSE [classification |-> Classification(in, deltaCp), deltaCp |-> deltaCp]

\* ClassifyMoveInput
Input(evalBefore, bestEvalAfter, playedEvalAfter, sideToMove) ==
  [evalBefore |-> evalBefore, bestEvalAfter |-> bestEvalAfter,
   playedEvalAfter |-> playedEvalAfter, sideToMove |-> sideToMove,
   allowsMate |-> Undefined, isSacrifice |-> Undefined,
   materialChangeCp |-> Undefined]

\* The cases of runClassifyMoveHarness.
HarnessBest == Input(Number(Cp(20)), Number(Cp(60)), Number(Cp(55)), "w")
HarnessMistake == Input(Number(Cp(10)), Number(Cp(120)), Number(Cp(-40)), "w")
HarnessBlunderByMate ==
  [Input(Number(Cp(30)), Number(Cp(40)), Mate(3), "w") EXCEPT !.allowsMate = <<TRUE>>]
HarnessBrilliant ==
  [Input(Number(Cp(30)), Number(Cp(140)), Number(Cp(130)), "w")
     EXCEPT !.isSacrifice = <<TRUE>>, !.materialChangeCp = <<Cp(-100)>>]

\* The inputs classifyMove is applied to: evaluations on both sides of every
\* threshold, halves included, the values of the harness, and mate scores.
Mates == {Mate(n) : n \in -MaxMate..MaxMate}
EvalGrid == {0, 10, 11, 20, 25, 26, 30, 40, 55, 60, 61, 80, 120, 121, 130, 140,
             200, 300, 301}
Thresholds == {10, 25, 60, 120, 300}
PlayedEvals ==
  {Number(Cp(n)) : n \in EvalGrid} \cup {Number(-Cp(n)) : n \in EvalGrid}
  \cup {Number(Cp(n) + 1) : n \in Thresholds}
  \cup {Number(Cp(n) - 1) : n \in Thresholds}
  \cup Mates
BestEvals ==
  {Number(Cp(n)) : n \in {-100, 0, 40, 60, 120, 140, 99699, 99700}} \cup {Mate(-1)}
BeforeEvals == {Number(Cp(n)) : n \in {-200, 10, 20, 30}} \cup {Mate(1)}
OptionalFlags == {Undefined, <<TRUE>>, <<FALSE>>}
MaterialChanges == {Undefined} \cup {<<Cp(n)>> : n \in {-100, -99, 0}}
ClassifyInputs ==
  [evalBefore : BeforeEvals, bestEvalAfter : BestEvals, playedEvalAfter : PlayedEvals,
   sideToMove : {"w", "b"}, allowsMate : OptionalFlags, isSacrifice : OptionalFlags,
   materialChangeCp : MaterialChanges]

NoInput == Input(Number(0), Number(0), Number(0), "w")
NoOutput == [classification |-> "none", deltaCp |-> 0]

\* ================================================================ actions
FreshWorker ==
  /\ initPromise' = "null"
  /\ joiners' = <<>>
  /\ lineWaiters' = <<>>
  /\ timers' = {}
  /\ nextWid' = 1
  /\ latestScore' = NullScore
  /\ latestPv' = Undefined
  /\ engOut' = <<>>
  /\ engPos' = NoFen
  /\ engSearch' = NoSearch
  /\ engInfos' = 0
  /\ trace' = <<>>
  /\ seen' = NoneSeen
  /\ resolvedW' = {}
  /\ rejectedW' = {}
  /\ reSettled' = FALSE

\* ------------------------------------------------------------- App.tsx
\* The App component.  Its engine calls are seen from the component's side:
\* a call is in flight from the moment the handler suspends in its first
\* await until the promise it awaits settles.
MaxLoads == 2          \* PGN loads in one run
MaxNavigations == 1    \* position changes in one run

\* The PGNs the user can paste: two games of equal length, a shorter one
\* and one without moves.
Pgns == {"A", "B", "C", "E"}
NoPgn == "none"
Plies(pgn) ==
  CASE pgn = "A" -> 2
    [] pgn = "B" -> 2
    [] pgn = "C" -> 1
    [] OTHER -> 0

\* FEN strings: every game starts from the same position and the games
\* differ from their first move on.
START_FEN == <<"start", 0>>
PositionOf(pgn, ply) == IF ply = 0 THEN START_FEN ELSE <<pgn, ply>>

MathMin(a, b) == IF a <= b THEN a ELSE b
MathAbs(x) == IF x >= 0 THEN x ELSE -x

\* String(n) of a natural number.
Digits == <<"0", "1", "2", "3", "4", "5", "6", "7", "8", "9">>
RECURSIVE NumberToString(_)
NumberToString(n) ==
  IF n < 10 THEN Digits[n + 1]
  ELSE NumberToString(n \div 10) \o Digits[(n % 10) + 1]

\* (h / 100).toFixed(2) of an integer h.
ToFixed2(h) ==
  (IF h < 0 THEN "-" ELSE "")
    \o NumberToString(MathAbs(h) \div 100) \o "."
    \o Digits[((MathAbs(h) % 100) \div 10) + 1] \o Digits[(MathAbs(h) % 10) + 1]

EngineScore(type, value) == [type |-> type, value |-> value]

normalizeEngineScore(score) ==
  IF score.type = "cp" THEN Number(Cp(score.value)) ELSE Mate(score.value)

\* A formatter that also marks 0 with a plus sign.
formatEvalInputPlusZero(score) ==
  IF score.type = "number"
  THEN (IF score.value >= 0 THEN "+" ELSE "") \o ToFixed2(score.value \div 2)
  ELSE (IF score.value < 0 THEN "-" ELSE "") \o "M#" \o NumberToString(MathAbs(score.value))

\* An engine's centipawn score is an integer (the worker reads it with -?\d+).
formatEvalInput(score) ==
  IF score.type = "number"
  THEN (IF score.value > 0 THEN "+" ELSE "") \o ToFixed2(score.value \div 2)
  ELSE (IF score.value < 0 THEN "-" ELSE "") \o "M#" \o NumberToString(MathAbs(score.value))

formatEngineScore(result) == formatEvalInput(normalizeEngineScore(result.score))

\* Percentages are kept in twelfths of a percent, the unit in which
\* ((-clamped + 600) / 1200) * 100 is whole.
Percent(p) == 12 * p
scoreToBarPercent(result) ==
  LET cp == IF result.score.type = "cp" THEN result.score.value
            ELSE IF result.score.value > 0 THEN 600 ELSE -600
      clamped == MathMax(-600, MathMin(600, cp))
  IN  -clamped + 600

INITIAL_EVAL_STATE ==
  [status |-> "idle", scoreLabel |-> "-", bestmove |-> "-",
   principalVariation |-> "-", barPercent |-> Percent(50), errorMessage |-> ""]

\* What analyzePosition can resolve with, and the message it can reject with.
AnalyzeResult(score, bestmove, principalVariation) ==
  [score |-> score, bestmove |-> bestmove, principalVariation |-> principalVariation]
AnalyzeResults ==
  {AnalyzeResult(EngineScore("cp", 50), "e2e4", <<"e2e4 e7e5">>),
   AnalyzeResult(EngineScore("mate", -2), "g1f3", Undefined)}
ErrorMessages == {"Timeout esperando \"bestmove\" de Stockfish"}

NoShown == [version |-> 0, fen |-> START_FEN, changed |-> FALSE]

InitialUi ==
  [pgn |-> NoPgn, moves |-> 0, positions |-> 1, currentPly |-> 0,
   classifiedPlies |-> <<>>, evaluation |-> INITIAL_EVAL_STATE,
   evalVersion |-> 0, classificationVersion |-> 0,
   deps |-> <<0, FALSE>>,   \* the dependencies the effect last ran with
   requests |-> {},         \* evaluateCurrentPosition calls suspended in an await
   batches |-> {},          \* analyzeMoveClassifications calls suspended in an await
   loads |-> 0, navigations |-> 0,
   shown |-> NoShown]       \* the request whose result the evaluation shows

currentFen(u) ==
  IF u.currentPly < u.positions THEN PositionOf(u.pgn, u.currentPly) ELSE START_FEN
hasGameLoaded(u) == u.moves > 0

\* Every suspended request learns that the position or the request changed.
Changed(requests) == {[r EXCEPT !.changed = TRUE] : r \in requests}

\* a position change that leaves the evaluation version alone
onPositionChangeNoBump(u, nextPly) ==
  [u EXCEPT !.currentPly = nextPly,
            !.evaluation = IF @.status = "analyzing"
                           THEN [@ EXCEPT !.status = "idle"] ELSE @]

onPositionChange(u, nextPly) ==
  [u EXCEPT !.currentPly = nextPly,
            !.evalVersion = @ + 1,
            !.evaluation = IF @.status = "analyzing" THEN [@ EXCEPT !.status = "idle"] ELSE @,
            !.requests = Changed(@)]

\* evaluateCurrentPosition up to its first await.
evaluateCurrentPosition(u) ==
  LET requestVersion == u.evalVersion + 1
  IN  [u EXCEPT !.evalVersion = requestVersion,
                !.evaluation = [@ EXCEPT !.status = "analyzing", !.errorMessage = ""],
                !.requests = Changed(@) \cup
                  {[version |-> requestVersion, fen |-> currentFen(u), changed |-> FALSE]}]

\* evaluateCurrentPosition after analyzePosition resolved with result.
ApplyResult(u, r, result) ==
  [u EXCEPT !.requests = @ \ {r},
            !.evaluation =
              [status |-> "idle", scoreLabel |-> formatEngineScore(result),
               bestmove |-> result.bestmove,
               principalVariation |-> OrElse(result.principalVariation, "-"),
               barPercent |-> scoreToBarPercent(result), errorMessage |-> ""],
            !.shown = r]

ResultArrived(u, r, result) ==
  IF r.version # u.evalVersion
  THEN [u EXCEPT !.requests = @ \ {r}]
  ELSE ApplyResult(u, r, result)

\* evaluateCurrentPosition's catch block.
ErrorArrived(u, r, message) ==
  IF r.version # u.evalVersion
  THEN [u EXCEPT !.requests = @ \ {r}]
  ELSE [u EXCEPT !.requests = @ \ {r},
                 !.evaluation = [@ EXCEPT !.status = "error", !.errorMessage = message],
                 !.shown = r]

\* analyzeMoveClassifications up to its first await.
analyzeMoveClassifications(u, pgn) ==
  IF Plies(pgn) = 0
  THEN [u EXCEPT !.classifiedPlies = <<>>]
  ELSE [u EXCEPT !.classificationVersion = @ + 1,
                 !.batches = @ \cup {[version |-> u.classificationVersion + 1,
                                      pgn |-> pgn]}]

\* analyzeMoveClassifications when a promise it awaits resolves: it returns
\* if its version is stale; otherwise it goes on to its next await, or the
\* loop is over (last) and it stores its output.
BatchResumed(u, b, last) ==
  IF b.version # u.classificationVersion
  THEN [u EXCEPT !.batches = @ \ {b}]
  ELSE IF ~last THEN u
  ELSE [u EXCEPT !.batches = @ \ {b}, !.classifiedPlies = <<b.pgn>>]

\* analyzeMoveClassifications's catch block only writes to the log.
BatchRejected(u, b) == [u EXCEPT !.batches = @ \ {b}]

\* The render after a state change and the effect on [currentPly, hasGameLoaded].
Effect(u) ==
  LET deps == <<u.currentPly, hasGameLoaded(u)>>
  IN  IF deps = u.deps THEN u
      ELSE IF ~hasGameLoaded(u) THEN [u EXCEPT !.deps = deps]
      ELSE evaluateCurrentPosition([u EXCEPT !.deps = deps])

\* onAnalyze with a PGN that parses.
onAnalyze(u, pgn) ==
  LET u1 == [u EXCEPT !.pgn = pgn,
                      !.moves = Plies(pgn),
                      !.classifiedPlies = <<>>,
                      !.positions = Plies(pgn) + 1,
                      !.currentPly = (Plies(pgn) + 1) - 1,
                      !.evaluation = INITIAL_EVAL_STATE,
                      !.shown = NoShown,
                      !.loads = @ + 1]
      u2 == [u1 EXCEPT !.requests =
               {[r EXCEPT !.changed = @ \/ r.fen # currentFen(u1)] : r \in @}]
  IN  analyzeMoveClassifications(u2, pgn)

\* The plies the enabled buttons and move cells lead to.
NavigationTargets(u) ==
  (IF u.currentPly = 0 THEN {} ELSE {0, MathMax(0, u.currentPly - 1)})
    \cup (IF u.currentPly >= u.positions - 1 THEN {}
          ELSE {MathMin(u.positions - 1, u.currentPly + 1), u.positions - 1})
    \cup (1..u.moves)

InitSession ==
  /\ ui = InitialUi
  /\ worker = 0 /\ gens = 0 /\ nextId = 1 /\ pending = {}
  /\ queue = <<>> /\ running = 0 /\ initDone = FALSE /\ mt = FALSE
  /\ calls = <<>>
  /\ inbox = <<>> /\ outbox = <<>>
  /\ initPromise = "null" /\ joiners = <<>> /\ lineWaiters = <<>>
  /\ timers = {} /\ nextWid = 1 /\ latestScore = NullScore /\ latestPv = Undefined
  /\ engOut = <<>> /\ engPos = NoFen
  /\ engSearch = NoSearch /\ engInfos = 0
  /\ trace = <<>> /\ seen = NoneSeen /\ resolvedW = {} /\ rejectedW = {} /\ reSettled = FALSE

Init == InitSession /\ input = NoInput /\ output = NoOutput

\* init() or analyzePosition(fen) is invoked: the call's promise is created
\* and its code runs up to the first await that suspends it.
Invoke(kind, fen, options) ==
  LET s == [ClientState EXCEPT !.calls = Append(@, Call(kind, fen, options))]
  IN init(s, Len(s.calls))

\* A caller invokes init().
CallInit ==
  /\ ~mt
  /\ Len(calls) < MaxCalls
  /\ SetClientState(Invoke("init", NoFen, NoOptions))
  /\ UNCHANGED <<mt, outbox, workerVars, engineVars, ghostVars>>
  /\ UNCHANGED <<classifyVars, appVars>>

\* A caller invokes analyzePosition(fen).
CallAnalyze ==
  /\ ~mt
  /\ Len(calls) < MaxCalls
  /\ \E fen \in Fens : SetClientState(Invoke("analyze", fen, NoOptions))
  /\ UNCHANGED <<mt, outbox, workerVars, engineVars, ghostVars>>
  /\ UNCHANGED <<classifyVars, appVars>>

\* The client's worker.onmessage task for the next response.
ClientReceive ==
  /\ ~mt
  /\ outbox # <<>>
  /\ SetClientState(onmessage(ClientState, Head(outbox)))
  /\ outbox' = Tail(outbox)
  /\ UNCHANGED <<mt, workerVars, engineVars, ghostVars>>
  /\ UNCHANGED <<classifyVars, appVars>>

\* A caller invokes dispose() on a live worker (without a worker the pending
\* map is empty and initDone is false already: dispose() changes nothing).
\* The state after this action is the one dispose() returns in; the promise
\* reactions of the requests it rejected run next, in DisposeReactions.
\* Responses the terminated worker had already posted may or may not still
\* be delivered.
Dispose ==
  /\ ~mt
  /\ worker # 0
  /\ gens < MaxWorkers
  /\ LET s == dispose(ClientState)
     IN /\ SetClientState(s)
        /\ mt' = (s.queue # <<>>)
  /\ outbox' \in {<<>>, outbox}
  /\ FreshWorker
  /\ UNCHANGED <<classifyVars, appVars>>

\* The promise reactions queued by dispose(): this.queue settles with the
\* rejected task, the next chained callback runs.
DisposeReactions ==
  /\ mt
  /\ mt' = FALSE
  /\ SetClientState(TaskSettled(ClientState))
  /\ UNCHANGED <<outbox, workerVars, engineVars, ghostVars>>
  /\ UNCHANGED <<classifyVars, appVars>>

\* The worker's self.onmessage task for the next request.
WorkerReceive ==
  /\ ~mt
  /\ inbox # <<>>
  /\ SetWorkerState(initEngine(WorkerState, Head(inbox)))
  /\ inbox' = Tail(inbox)
  /\ UNCHANGED clientVars
  /\ UNCHANGED <<classifyVars, appVars>>

\* engineWorker.onmessage for the next line of the engine.
EngineLine ==
  /\ ~mt
  /\ engOut # <<>>
  /\ SetWorkerState(engineWorkerOnmessage([WorkerState EXCEPT !.engOut = Tail(@)],
                                          Head(engOut)))
  /\ UNCHANGED <<clientVars, inbox>>
  /\ UNCHANGED <<classifyVars, appVars>>

\* The timer of a waiter fires.  Time is not measured: an armed timer may
\* fire at any moment, before or after the engine's line.
Timeout ==
  /\ ~mt
  /\ \E w \in timers : SetWorkerState(onTimeout(WorkerState, w))
  /\ UNCHANGED <<clientVars, inbox>>
  /\ UNCHANGED <<classifyVars, appVars>>

\* ----------------------------------------------------------- the engine
EngineEmit(line) == engOut' = Append(engOut, line)

\* The searching engine reports an iteration.
EngineInfo ==
  /\ ~mt
  /\ engSearch # NoSearch
  /\ engInfos < MaxInfo
  /\ engInfos' = engInfos + 1
  /\ \E v \in Scores : EngineEmit(Line("info", NoFen, 0, [type |-> "cp", value |-> v]))
  /\ UNCHANGED <<engPos, engSearch>>
  /\ UNCHANGED <<clientVars, inbox, outbox, workerVars, ghostVars>>
  /\ UNCHANGED <<classifyVars, appVars>>

\* The search ends by itself.
EngineBestmove ==
  /\ ~mt
  /\ engSearch # NoSearch
  /\ EngineEmit(Line("bestmove", engSearch.fen, engSearch.req, NullScore))
  /\ engSearch' = NoSearch
  /\ UNCHANGED <<engPos, engInfos>>
  /\ UNCHANGED <<clientVars, inbox, outbox, workerVars, ghostVars>>
  /\ UNCHANGED <<classifyVars, appVars>>

Next ==
  \/ CallInit
  \/ CallAnalyze
  \/ ClientReceive
  \/ Dispose
  \/ DisposeReactions
  \/ WorkerReceive
  \/ EngineLine
  \/ Timeout
  \/ EngineInfo
  \/ EngineBestmove

Spec == Init /\ [][Next]_vars

\* A session of analyzePosition calls with any options.  The go command does
\* not depend on what the engine reports, so the engine writes no info lines.
CallAnalyzeOptions ==
  /\ ~mt
  /\ Len(calls) < MaxCalls
  /\ \E fen \in Fens, options \in AnalyzeOptions :
       SetClientState(Invoke("analyze", fen, options))
  /\ UNCHANGED <<mt, outbox, workerVars, engineVars, ghostVars>>
  /\ UNCHANGED <<classifyVars, appVars>>

NextOptions ==
  \/ CallAnalyzeOptions
  \/ ClientReceive
  \/ WorkerReceive
  \/ EngineLine
  \/ Timeout
  \/ EngineBestmove

SpecOptions == Init /\ [][NextOptions]_vars

\* A session of analyzePosition calls for one position, on an engine whose
\* info lines may carry a score, a pv, both or neither.
CallAnalyzeOne ==
  /\ ~mt
  /\ Len(calls) < MaxCalls
  /\ \E fen \in {"f1"} : SetClientState(Invoke("analyze", fen, NoOptions))
  /\ UNCHANGED <<mt, outbox, workerVars, engineVars, ghostVars>>
  /\ UNCHANGED <<classifyVars, appVars>>

EngineInfoAny ==
  /\ ~mt
  /\ engSearch # NoSearch
  /\ engInfos < MaxInfo
  /\ engInfos' = engInfos + 1
  /\ \E score \in {NullScore} \cup {[type |-> "cp", value |-> v] : v \in Scores},
        pv \in {Undefined} \cup {<<x>> : x \in Pvs} :
       EngineEmit([Line("info", NoFen, engSearch.req, score) EXCEPT !.pv = pv])
  /\ UNCHANGED <<engPos, engSearch>>
  /\ UNCHANGED <<clientVars, inbox, outbox, workerVars, ghostVars>>
  /\ UNCHANGED <<classifyVars, appVars>>

NextInfo ==
  \/ CallAnalyzeOne
  \/ ClientReceive
  \/ WorkerReceive
  \/ EngineLine
  \/ Timeout
  \/ EngineInfoAny
  \/ EngineBestmove

SpecInfo == Init /\ [][NextInfo]_vars

\* classifyMove applied to one input.
InitClassify == InitSession /\ input \in ClassifyInputs /\ output = NoOutput

ClassifyMove ==
  /\ output = NoOutput
  /\ output' = classifyMove(input)
  /\ UNCHANGED <<input, clientVars, chanVars, workerVars, engineVars, ghostVars, appVars>>

NextClassify == ClassifyMove

SpecClassify == InitClassify /\ [][NextClassify]_vars

\* A session with one more call, so that a third caller can arrive while the
\* init requests of two others are in flight, and with an engine that may
\* leave the move out of its bestmove line.
CallInitWide ==
  /\ ~mt
  /\ Len(calls) < MaxCalls + 1
  /\ SetClientState(Invoke("init", NoFen, NoOptions))
  /\ UNCHANGED <<mt, outbox, workerVars, engineVars, ghostVars>>
  /\ UNCHANGED <<classifyVars, appVars>>

CallAnalyzeWide ==
  /\ ~mt
  /\ Len(calls) < MaxCalls + 1
  /\ \E fen \in Fens : SetClientState(Invoke("analyze", fen, NoOptions))
  /\ UNCHANGED <<mt, outbox, workerVars, engineVars, ghostVars>>
  /\ UNCHANGED <<classifyVars, appVars>>

\* An engine that ends a search with a bestmove line without a move, with
\* or without whitespace after the word.
EngineBareBestmove ==
  /\ ~mt
  /\ engSearch # NoSearch
  /\ \E space \in BOOLEAN :
       EngineEmit([Line("bestmove", engSearch.fen, engSearch.req, NullScore)
                     EXCEPT !.arg = FALSE, !.space = space])
  /\ engSearch' = NoSearch
  /\ UNCHANGED <<engPos, engInfos>>
  /\ UNCHANGED <<clientVars, inbox, outbox, workerVars, ghostVars>>
  /\ UNCHANGED <<classifyVars, appVars>>

NextWide ==
  \/ CallInitWide
  \/ CallAnalyzeWide
  \/ ClientReceive
  \/ Dispose
  \/ DisposeReactions
  \/ WorkerReceive
  \/ EngineLine
  \/ Timeout
  \/ EngineInfo
  \/ EngineBestmove
  \/ EngineBareBestmove

SpecWide == Init /\ [][NextWide]_vars

\* ------------------------------------------------------------ App runs
protocolVars == <<clientVars, chanVars, workerVars, engineVars, ghostVars>>

\* The user pastes a PGN and presses Analizar.
LoadPgn ==
  /\ ui.loads < MaxLoads
  /\ \E pgn \in Pgns : ui' = Effect(onAnalyze(ui, pgn))
  /\ UNCHANGED <<protocolVars, classifyVars>>

\* The user presses a navigation button or a move cell.
Navigate ==
  /\ ui.navigations < MaxNavigations
  /\ \E nextPly \in NavigationTargets(ui) :
       ui' = Effect([onPositionChange(ui, nextPly) EXCEPT !.navigations = @ + 1])
  /\ UNCHANGED <<protocolVars, classifyVars>>

\* analyzePosition resolves for a suspended evaluateCurrentPosition.
EvaluationResolved ==
  /\ \E r \in ui.requests, result \in AnalyzeResults : ui' = ResultArrived(ui, r, result)
  /\ UNCHANGED <<protocolVars, classifyVars>>

\* init or analyzePosition rejects for a suspended evaluateCurrentPosition.
EvaluationRejected ==
  /\ \E r \in ui.requests, message \in ErrorMessages : ui' = ErrorArrived(ui, r, message)
  /\ UNCHANGED <<protocolVars, classifyVars>>

ClassificationResumed ==
  /\ \E b \in ui.batches, last \in BOOLEAN : ui' = BatchResumed(ui, b, last)
  /\ UNCHANGED <<protocolVars, classifyVars>>

ClassificationRejected ==
  /\ \E b \in ui.batches : ui' = BatchRejected(ui, b)
  /\ UNCHANGED <<protocolVars, classifyVars>>

NextApp ==
  \/ LoadPgn
  \/ Navigate
  \/ EvaluationResolved
  \/ EvaluationRejected
  \/ ClassificationResumed
  \/ ClassificationRejected

SpecApp == Init /\ [][NextApp]_vars

\* ------------------------------------------------- the bestmove wait in time
\* One exchange on an initialized worker, with the time the engine takes:
\* waitForLine arms its timer when the go command is sent, and the engine's
\* bestmove line arrives arrivesAfterMs later.
BestmoveTimeoutMs == 30000

BudgetOptions ==
  [depth : {Undefined, <<12>>},
   movetimeMs : {Undefined} \cup {<<m>> : m \in {500, 20000, 40000, 60000}}]
ArrivalTimes == {100, 400, 900, 19000, 29999, 30000, 30001, 39000, 59000, 61000}
BudgetInputs == [options : BudgetOptions, arrivesAfterMs : ArrivalTimes]

\* The go command of the exchange.
GoOf(options) ==
  IF options.depth # Undefined THEN Go("depth", options.depth[1], 0)
  ELSE Go("movetime", OrElse(options.movetimeMs, DefaultMovetimeMs), 0)

\* The timeoutMs that analyzePosition hands to waitForLine.
bestmoveTimeoutMs(options) == BestmoveTimeoutMs

\* What the exchange can end with: the line wins when it arrives before the
\* timer is due, the timer wins when it is due first, and both orders are
\* possible when they are due together.
ExchangeOutcomes(in) ==
  LET timeoutMs == bestmoveTimeoutMs(in.options)
  IN  (IF in.arrivesAfterMs <= timeoutMs
       THEN {[type |-> "analyze:ok", error |-> ""]} ELSE {})
        \cup (IF in.arrivesAfterMs >= timeoutMs
              THEN {[type |-> "error", error |-> TimeoutMessage("bestmove")]} ELSE {})

InitBudget == InitSession /\ input \in BudgetInputs /\ output = NoOutput

ExchangeEnds ==
  /\ output = NoOutput
  /\ output' \in ExchangeOutcomes(input)
  /\ UNCHANGED <<input, protocolVars, appVars>>

NextBudget == ExchangeEnds

SpecBudget == InitBudget /\ [][NextBudget]_vars

\* ------------------------------------------------- formatting one score
FormatScores ==
  {EngineScore("cp", v) : v \in (-130..130) \cup {-1234, 999, 1000, 1234}}
    \cup {EngineScore("mate", n) : n \in -12..12}

InitFormat == InitSession /\ input \in FormatScores /\ output = NoOutput

FormatScore ==
  /\ output = NoOutput
  /\ output' = [scoreLabel |-> formatEngineScore(AnalyzeResult(input, "e2e4", Undefined))]
  /\ UNCHANGED <<input, protocolVars, appVars>>

NextFormat == FormatScore

SpecFormat == InitFormat /\ [][NextFormat]_vars

\* ------------------------------------------- the worker driven directly
\* The worker's message interface without the client in front of it: a page
\* posts init and analyze requests to the worker as it likes, so exchanges
\* can overlap and several waiters can be registered at once.
PostMessage ==
  /\ ~mt
  /\ nextId <= MaxCalls + 1
  /\ \E type \in {"init", "analyze"} :
       inbox' = Append(inbox, Req(nextId, type,
                                  IF type = "analyze" THEN "f1" ELSE NoFen, NoOptions))
  /\ nextId' = nextId + 1
  /\ UNCHANGED <<worker, pending, queue, running, initDone, gens, mt, calls>>
  /\ UNCHANGED <<outbox, workerVars, engineVars, ghostVars>>
  /\ UNCHANGED <<classifyVars, appVars>>

NextWorker ==
  \/ PostMessage
  \/ WorkerReceive
  \/ EngineLine
  \/ Timeout
  \/ EngineInfo
  \/ EngineBestmove

SpecWorker == Init /\ [][NextWorker]_vars

\* ------------------------------------------------- runs in which timers fire
\* The session of Spec with one position and without info lines, under the
\* scheduling of the two event loops: as long as a posted message, a line the
\* engine wrote, a queued promise reaction or an armed timer is waiting, one
\* of them is handled.  The callers and the engine owe nothing: no call has
\* to be made, and the engine may never report a bestmove.
Scheduled ==
  \/ ClientReceive
  \/ DisposeReactions
  \/ WorkerReceive
  \/ EngineLine
  \/ Timeout

NextLive ==
  \/ CallInit
  \/ CallAnalyzeOne
  \/ Dispose
  \/ EngineBestmove
  \/ Scheduled

SpecLive == Init /\ [][NextLive]_vars /\ WF_vars(Scheduled)

\* ================================================================ claims
CallIds == 1..Len(calls)
Analyzes == {c \in CallIds : calls[c].kind = "analyze"}
IsSettled(c) == calls[c].st \in {"resolved", "rejected"}
ExchangeCmds == {"stop", "position", "go"}
IsExchangeCmd(i) == trace[i].cmd \in ExchangeCmds
CallOfReq(r) == CHOOSE c \in CallIds : calls[c].reqId = r

\* Analyze requests between the client and the worker: sent and not yet
\* handled, suspended on the handshake, or waiting for their bestmove.
AnalyzeAtWorker ==
  Cardinality({i \in 1..Len(inbox) : inbox[i].type = "analyze"})
  + Cardinality({i \in 1..Len(joiners) : joiners[i].type = "analyze"})
  + Cardinality({i \in 1..Len(lineWaiters) : lineWaiters[i].cont = "analyze"})

\* C1 -- Overlapping analyzePosition calls never interleave on the wire: at
\* most one analyze request is outstanding, and when a command of one exchange
\* is on the transport log, every exchange logged before it has sent its full
\* command set (stop, position, go), sends nothing later, and its caller's
\* promise is already settled.
C1_NoInterleaving ==
  /\ Cardinality({c \in CallIds : calls[c].st = "running"}) <= 1
  /\ AnalyzeAtWorker <= 1
  /\ \A i, j \in 1..Len(trace) :
       (i < j /\ IsExchangeCmd(i) /\ IsExchangeCmd(j) /\ trace[i].req # trace[j].req)
       => /\ IsSettled(CallOfReq(trace[i].req))
          /\ \A k \in j..Len(trace) : IsExchangeCmd(k) => trace[k].req # trace[i].req
          /\ \A x \in ExchangeCmds :
               \E k \in 1..(j - 1) : trace[k].cmd = x /\ trace[k].req = trace[i].req

\* Two calls overlapped (the second had to wait in the queue) and both
\* exchanges went over the same transport.
C1_Witness ==
  \E a, b \in Analyzes :
    /\ calls[b].waited /\ calls[b].st = "resolved"
    /\ calls[a].reqId # 0 /\ calls[a].reqId < calls[b].reqId
    /\ \E i, j \in 1..Len(trace) :
         /\ i < j
         /\ trace[i].cmd = "go" /\ trace[i].req = calls[a].reqId
         /\ trace[j].cmd = "go" /\ trace[j].req = calls[b].reqId

\* C2 -- The result analyzePosition(fen) resolves with belongs to that fen:
\* its bestmove comes from the bestmove line of the search its own go command
\* started, also after earlier exchanges that timed out.
C2_ResultBelongsToCall ==
  \A c \in Analyzes :
    calls[c].st = "resolved"
    => calls[c].go = calls[c].reqId /\ calls[c].bestmove = calls[c].fen

HandshakeFailures(log) == Count(log, "!uciok") + Count(log, "!readyok")

\* What the handshake phase of call c ended with, once the worker answered.
InitOutcome(c) ==
  IF calls[c].gen = 0 THEN "none"
  ELSE IF calls[c].st = "rejected" /\ calls[c].err \in {TimeoutMessage("uciok"), TimeoutMessage("readyok")}
       THEN calls[c].err
       ELSE "ok"

\* C3 -- Concurrent init() calls on an uninitialized session share one
\* handshake: a worker has sent one handshake sequence per failed handshake
\* plus one for the handshake in progress or done (so exactly one while none
\* has failed), nobody stays suspended once the handshake has settled, and
\* all callers let through or failed by the same handshake get the same
\* outcome (a caller that dispose() rejected before its answer arrived has
\* no handshake outcome).
C3_SingleHandshake ==
  /\ Count(trace, "uci")
       = HandshakeFailures(trace) + (IF initPromise = "null" THEN 0 ELSE 1)
  /\ Count(trace, "ucinewgame") <= Count(trace, "uci")
  /\ Count(trace, "isready") <= 2 * Count(trace, "uci")
  /\ joiners # <<>> => initPromise = "pending"
  /\ \A a, b \in CallIds :
       (/\ calls[a].gen = calls[b].gen /\ calls[a].hs = calls[b].hs
        /\ InitOutcome(a) # "none" /\ InitOutcome(b) # "none")
       => InitOutcome(a) = InitOutcome(b)

\* Two init() calls were made before either was answered, the worker sent
\* one handshake and both resolved.
C3_Witness ==
  /\ gens = 1 /\ Len(calls) = 2
  /\ \A c \in CallIds :
       /\ calls[c].kind = "init" /\ calls[c].initId # 0
       /\ calls[c].st = "resolved" /\ calls[c].hs = 1
  /\ Count(trace, "uci") = 1 /\ HandshakeFailures(trace) = 0

\* C4 -- analyzePosition never resolves before a bestmove line was received
\* after its go command was sent: the wait of a resolved call was ended by a
\* bestmove line, and a result on its way to the client has, on the transport
\* log, its go command followed by the bestmove line that ended its wait.
C4_ResolvesAfterBestmove ==
  /\ \A c \in Analyzes : calls[c].st = "resolved" => calls[c].via = "bestmove"
  /\ \A i \in 1..Len(outbox) :
       (outbox[i].type = "analyze:ok" /\ outbox[i].id \in pending)
       => \E p, q \in 1..Len(trace) :
            /\ p < q
            /\ trace[p].cmd = "go" /\ trace[p].req = outbox[i].id
            /\ trace[q].cmd = "<bestmove" /\ trace[q].req = outbox[i].id

\* A call resolved with the bestmove of its own search, after an info line.
C4_Witness ==
  \E c \in Analyzes :
    /\ calls[c].st = "resolved" /\ calls[c].go = calls[c].reqId
    /\ calls[c].score # DefaultScore

\* C5 -- Every line waiter settles exactly once: never resolved and rejected,
\* never settled twice; a waiter is in the list exactly while its timer is
\* armed, and then it is unsettled; every waiter ever created is in the list
\* or settled.
C5_SettlesOnce ==
  /\ ~reSettled
  /\ resolvedW \cap rejectedW = {}
  /\ \A i \in 1..Len(lineWaiters) :
       /\ lineWaiters[i].wid \notin resolvedW \cup rejectedW
       /\ lineWaiters[i] \in timers
  /\ \A w \in timers :
       /\ w.wid \notin resolvedW \cup rejectedW
       /\ w \in Range(lineWaiters)
  /\ 1..(nextWid - 1)
       = resolvedW \cup rejectedW \cup {lineWaiters[i].wid : i \in 1..Len(lineWaiters)}

\* The uciok waiter timed out, and the uciok line of that uci arrived later:
\* it resolved nothing.
C5_Witness ==
  /\ Count(trace, "uci") = 1 /\ Count(trace, "!uciok") = 1
  /\ engOut = <<>>
  /\ rejectedW = {1} /\ resolvedW = {}

\* ------------------------------------------------- the handshake on the log
HandshakeEvents ==
  {"uci", "isready", "ucinewgame", "<uciok", "<readyok", "!uciok", "!readyok",
   "handshake:ok"}
HandshakeCmds == {"uci", "isready", "ucinewgame"}
HsLog == SelectSeq(trace, LAMBDA e : e.cmd \in HandshakeEvents)

\* The order initEngine prescribes: each command after the acknowledgement
\* before it; a timeout ends the attempt; a new attempt starts with uci.
HsStep(st, ev) ==
  CASE st \in {"idle", "done"} /\ ev = "uci" -> "uci"
    [] st = "uci" /\ ev = "<uciok" -> "uciok"
    [] st = "uci" /\ ev = "!uciok" -> "idle"
    [] st = "uciok" /\ ev = "isready" -> "isready1"
    [] st = "isready1" /\ ev = "<readyok" -> "readyok1"
    [] st = "isready1" /\ ev = "!readyok" -> "idle"
    [] st = "readyok1" /\ ev = "ucinewgame" -> "ucinewgame"
    [] st = "ucinewgame" /\ ev = "isready" -> "isready2"
    [] st = "isready2" /\ ev = "<readyok" -> "readyok2"
    [] st = "isready2" /\ ev = "!readyok" -> "idle"
    [] st = "readyok2" /\ ev = "handshake:ok" -> "done"
    [] OTHER -> "bad"

RECURSIVE HsRun(_, _)
HsRun(log, st) ==
  IF log = <<>> THEN st ELSE HsRun(Tail(log), HsStep(st, Head(log).cmd))

IsHandshakeFailure(e) == e.cmd \in {"!uciok", "!readyok"}
Unsettled(c) == calls[c].st \in {"initWait", "running"}
RequestOf(c) == IF calls[c].st = "initWait" THEN calls[c].initId ELSE calls[c].reqId

\* C6 -- dispose() rejects every pending request with the closed error and
\* leaves no worker, an empty pending map and initDone false; the worker a
\* later call creates is a new one with nothing of the old handshake, and an
\* init request is answered init:ok only after a full handshake on the worker
\* it was sent to.
C6_DisposeResets ==
  /\ [](/\ worker = 0 =>
             /\ pending = {} /\ ~initDone /\ inbox = <<>>
             /\ initPromise = "null" /\ trace = <<>>
             /\ \A c \in CallIds : ~Unsettled(c)
        /\ initDone => worker # 0
        /\ \A c \in CallIds : Unsettled(c) => RequestOf(c) \in pending
        /\ \A i \in 1..Len(inbox) : inbox[i].id \in pending
        /\ \A i \in 1..Len(outbox) :
             (outbox[i].type = "init:ok" /\ outbox[i].id \in pending)
             => HsRun(HsLog, "idle") = "done")
  /\ [][(worker # 0 /\ worker' = 0)
        => \A c \in CallIds :
             Unsettled(c) => calls'[c].st = "rejected" /\ calls'[c].err = "closed"]_vars
  /\ [][(worker = 0 /\ worker' # 0)
        => /\ worker' = gens' /\ gens' = gens + 1
           /\ initPromise' = "null" /\ inbox' # <<>>]_vars

\* A request was rejected by dispose(), and an init() made afterwards was
\* answered by the second worker after its own full handshake.
C6_Witness ==
  /\ \E c \in CallIds : calls[c].st = "rejected" /\ calls[c].err = "closed"
  /\ \E c \in CallIds : calls[c].kind = "init" /\ calls[c].st = "resolved" /\ calls[c].gen = 2
  /\ initDone /\ worker = 2
  /\ HsRun(HsLog, "idle") = "done"

\* C7 -- A handshake that fails at any step clears the memoized handshake and
\* does not mark initialization done: while the last handshake of the worker
\* is a failed one, initPromise is null, initDone is false, nobody is
\* suspended on it and no handshake waiter is left; the handshake command
\* that follows a failure is uci.
C7_FailedHandshakeRetries ==
  /\ (HsLog # <<>> /\ IsHandshakeFailure(HsLog[Len(HsLog)]))
     => /\ initPromise = "null" /\ ~initDone /\ joiners = <<>>
        /\ lineWaiters = <<>> /\ timers = {}
  /\ initDone => initPromise = "resolved"
  /\ \A i \in 1..(Len(HsLog) - 1) :
       IsHandshakeFailure(HsLog[i]) => HsLog[i + 1].cmd = "uci"
  /\ \A i \in 1..Len(HsLog) :
       HsLog[i].cmd = "handshake:ok" => HsRun(SubSeq(HsLog, 1, i), "idle") = "done"

\* A handshake timed out, its caller was rejected, and the next call got a
\* complete handshake from uci on.
C7_Witness ==
  /\ \E c \in CallIds : calls[c].st = "rejected" /\ calls[c].err \in {TimeoutMessage("uciok"), TimeoutMessage("readyok")}
  /\ \E c \in CallIds : calls[c].st = "resolved" /\ calls[c].hs = 2
  /\ HandshakeFailures(trace) = 1 /\ Count(trace, "uci") = 2
  /\ HsRun(HsLog, "idle") = "done"

\* C8 -- A failed exchange rejects only its own caller and leaves the session
\* usable: the bestmove timeout of a request is answered by one error for
\* that request, no waiter of it stays behind, the worker stays and stays
\* initialized; a call rejected with the bestmove error had been sent itself;
\* and the queue never stops behind a settled task.
C8_FailureIsLocal ==
  /\ \A i \in 1..Len(trace) :
       trace[i].cmd = "!bestmove"
       => /\ i < Len(trace)
          /\ trace[i + 1].cmd = ">error" /\ trace[i + 1].req = trace[i].req
          /\ (i + 1 < Len(trace) => trace[i + 2].cmd # ">error")
          /\ \A w \in timers \cup Range(lineWaiters) : w.req # trace[i].req
          /\ worker # 0 /\ initPromise = "resolved"
  /\ \A c \in CallIds :
       (calls[c].st = "rejected" /\ calls[c].err = TimeoutMessage("bestmove"))
       => calls[c].kind = "analyze" /\ calls[c].reqId # 0
  /\ ~mt => /\ running = 0 => queue = <<>>
            /\ running # 0 => calls[running].st = "running"
  /\ \A i \in 1..Len(queue) : calls[queue[i]].st = "queued"

\* One exchange timed out; the call that was waiting behind it was sent and
\* resolved with the bestmove of its own search.
C8_Witness ==
  \E a, b \in Analyzes :
    /\ calls[a].st = "rejected" /\ calls[a].err = TimeoutMessage("bestmove")
    /\ calls[b].waited /\ calls[b].st = "resolved"
    /\ calls[b].reqId > calls[a].reqId /\ calls[b].go = calls[b].reqId

\* C9 -- After a successful handshake no handshake command goes to the engine
\* of that worker any more; an init request handled after it sends no engine
\* command at all; and init() called while initDone is set resolves at once
\* without sending a request.
C9_HandshakeOnce ==
  /\ [](/\ \A i, j \in 1..Len(trace) :
             (i < j /\ trace[i].cmd = "handshake:ok") => trace[j].cmd \notin HandshakeCmds
        /\ Count(trace, "handshake:ok") <= 1
        /\ initDone => initPromise = "resolved" /\ worker # 0)
  /\ [][(initPromise = "resolved" /\ inbox # <<>> /\ Head(inbox).type = "init"
         /\ inbox' = Tail(inbox) /\ worker' = worker)
        => /\ trace' = Append(trace, Cmd(">init:ok", NoFen, Head(inbox).id))
           /\ engOut' = engOut]_vars
  /\ [][(initDone /\ Len(calls') > Len(calls) /\ calls'[Len(calls')].kind = "init")
        => /\ calls'[Len(calls')].st = "resolved"
           /\ inbox' = inbox /\ pending' = pending /\ nextId' = nextId]_vars

\* init() was called on an initialized session and resolved without a request.
C9_Witness ==
  /\ initDone
  /\ \E c \in CallIds :
       calls[c].kind = "init" /\ calls[c].initId = 0 /\ calls[c].st = "resolved"
  /\ Count(trace, "handshake:ok") = 1

\* C10 -- The handshake goes uci, uciok, isready, readyok, ucinewgame,
\* isready, readyok, each command only after the acknowledgement before it
\* was received, and no stop, position or go is sent on a transport before
\* the last readyok of a handshake on it.
C10_HandshakeOrder ==
  /\ HsRun(HsLog, "idle") # "bad"
  /\ initPromise = "resolved" <=> HsRun(HsLog, "idle") = "done"
  /\ \A i \in 1..Len(trace) :
       IsExchangeCmd(i)
       => \E p \in 1..(i - 1) :
            /\ trace[p].cmd = "handshake:ok"
            /\ HsRun(SelectSeq(SubSeq(trace, 1, p), LAMBDA e : e.cmd \in HandshakeEvents),
                     "idle") = "done"

\* A handshake completed and an exchange was sent after it.
C10_Witness ==
  \E i, j \in 1..Len(trace) :
    i < j /\ trace[i].cmd = "handshake:ok" /\ trace[j].cmd = "go"

\* C11 -- Exchanges run in call order: when analyzePosition call a was invoked
\* before call b, no exchange command of b is sent before one of a, also when
\* the calls are made while init requests of other callers are in flight.
C11_CallOrder ==
  \A i, j \in 1..Len(trace) :
    (i < j /\ IsExchangeCmd(i) /\ IsExchangeCmd(j))
    => CallOfReq(trace[i].req) <= CallOfReq(trace[j].req)

\* The next line of the engine is a bestmove line without a move.
BareBestmoveNext ==
  engOut # <<>> /\ Head(engOut).kind = "bestmove" /\ ~Head(engOut).arg

\* C12 -- A bestmove line without a move token ("bestmove", possibly followed
\* by whitespace) that arrives while an exchange waits for its result does not
\* fail the exchange: handling the line answers the request with analyze:ok
\* and bestmove "0000".
C12_BareBestmoveResolves ==
  [][(/\ BareBestmoveNext
      /\ \E w \in Range(lineWaiters) : w.cont = "analyze"
      /\ worker' = worker
      /\ engOut' = Tail(engOut))
     => /\ Len(outbox') = Len(outbox) + 1
        /\ outbox'[Len(outbox')].type = "analyze:ok"
        /\ outbox'[Len(outbox')].bestmove = NullMove]_vars

\* The exchange commands request r has put on the wire, in order.
ExchangeOf(r) == SelectSeq(trace, LAMBDA e : e.req = r /\ e.cmd \in ExchangeCmds)

\* C13 -- Each exchange sends exactly stop, position fen <fen>, and one go, in
\* that order and in one block: go depth <depth> whenever options.depth is a
\* number (also when movetimeMs is given too), otherwise go movetime
\* <movetimeMs>, with 1000 when movetimeMs is not given.
C13_ExchangeCommands ==
  \A c \in Analyzes :
    LET r == calls[c].reqId
        o == calls[c].options
        go == IF o.depth # Undefined THEN Go("depth", o.depth[1], r)
              ELSE IF o.movetimeMs # Undefined THEN Go("movetime", o.movetimeMs[1], r)
              ELSE Go("movetime", 1000, r)
    IN /\ ExchangeOf(r) \in {<<>>, <<Cmd("stop", NoFen, r), Cmd("position", calls[c].fen, r), go>>}
       /\ calls[c].st = "resolved" => ExchangeOf(r) # <<>>

\* One call with both options and one with none have been answered.
C13_Witness ==
  \E a, b \in Analyzes :
    /\ calls[a].st = "resolved" /\ calls[b].st = "resolved"
    /\ calls[a].options.depth # Undefined /\ calls[a].options.movetimeMs # Undefined
    /\ calls[b].options = NoOptions
    /\ \E i \in 1..Len(trace) : trace[i] = Go("depth", calls[a].options.depth[1], calls[a].reqId)
    /\ \E i \in 1..Len(trace) : trace[i] = Go("movetime", DefaultMovetimeMs, calls[b].reqId)

Returned == output # NoOutput
Falsy(flag) == ~OrElse(flag, FALSE)
NoFlags(in) ==
  in.allowsMate = Undefined /\ in.isSacrifice = Undefined /\ in.materialChangeCp = Undefined
PlainEvalsAfter(in) ==
  in.bestEvalAfter.type = "number" /\ in.playedEvalAfter.type = "number"
\* How far the evaluation after the played move lies below the one after the
\* best move, as the two are handed in.
LossAsGiven(in) == in.bestEvalAfter.value - in.playedEvalAfter.value
Abs(x) == IF x >= 0 THEN x ELSE -x

\* C15 -- For every input (centipawn numbers or mate scores, either side to
\* move, any flags and material change) the returned deltaCp is an integer
\* greater than or equal to 0.
C15_DeltaNonNegativeInteger ==
  Returned => IsInteger(output.deltaCp) /\ output.deltaCp >= 0

\* The played move evaluates better than the best move, by a fraction of a
\* centipawn among others: the raw difference is negative and not whole.
C15_Witness ==
  /\ Returned
  /\ bestMoverCp(input) < playedMoverCp(input)
  /\ ~IsInteger(bestMoverCp(input) - playedMoverCp(input))
  /\ output.deltaCp = 0

\* C16 -- With allowsMate false, materialChangeCp above -100 and isSacrifice
\* false the classification follows from deltaCp alone: up to 10 BEST, 11..25
\* EXCELLENT, 26..60 GOOD, 61..120 INACCURACY, 121..300 MISTAKE, above 300
\* BLUNDER.
C16_Bands ==
  (/\ Returned
   /\ Falsy(input.allowsMate)
   /\ OrElse(input.materialChangeCp, 0) > Cp(-100)
   /\ Falsy(input.isSacrifice))
  => LET d == output.deltaCp
         c == output.classification
     IN /\ d <= Cp(10) => c = "BEST"
        /\ (Cp(11) <= d /\ d <= Cp(25)) => c = "EXCELLENT"
        /\ (Cp(26) <= d /\ d <= Cp(60)) => c = "GOOD"
        /\ (Cp(61) <= d /\ d <= Cp(120)) => c = "INACCURACY"
        /\ (Cp(121) <= d /\ d <= Cp(300)) => c = "MISTAKE"
        /\ d > Cp(300) => c = "BLUNDER"
        /\ c \in {"BEST", "EXCELLENT", "GOOD", "INACCURACY", "MISTAKE", "BLUNDER"}

\* A loss of 60.5 centipawns is rounded to 61 and lands in INACCURACY.
C16_Witness ==
  /\ Returned
  /\ Falsy(input.allowsMate) /\ Falsy(input.isSacrifice)
  /\ OrElse(input.materialChangeCp, 0) > Cp(-100)
  /\ bestMoverCp(input) - playedMoverCp(input) = Cp(60) + 1
  /\ output = [classification |-> "INACCURACY", deltaCp |-> Cp(61)]

\* C17 -- With allowsMate true the result is BLUNDER whatever the
\* evaluations, the side to move, isSacrifice and materialChangeCp are (so
\* never BRILLIANT), and deltaCp is the non-negative loss the same input gives
\* without allowsMate.
C17_AllowsMateIsBlunder ==
  (Returned /\ input.allowsMate = <<TRUE>>)
  => /\ output.classification = "BLUNDER"
     /\ output.deltaCp >= 0
     /\ output.deltaCp = classifyMove([input EXCEPT !.allowsMate = <<FALSE>>]).deltaCp

\* A move that would be BRILLIANT without allowsMate.
C17_Witness ==
  /\ Returned
  /\ input.allowsMate = <<TRUE>>
  /\ classifyMove([input EXCEPT !.allowsMate = Undefined]).classification = "BRILLIANT"
  /\ output.classification = "BLUNDER"

\* C18 -- For a white mover with no flags set, when the evaluation after the
\* played move is lower than the one after the best move by more than 120 and
\* at most 300 centipawns (evalBefore 10, bestEvalAfter 120, playedEvalAfter
\* -40), the result is MISTAKE.
C18_LossInMistakeBand ==
  (/\ Returned
   /\ input.sideToMove = "w" /\ NoFlags(input) /\ PlainEvalsAfter(input)
   /\ LossAsGiven(input) > Cp(120) /\ LossAsGiven(input) <= Cp(300))
  => output.classification = "MISTAKE"

\* C19 -- For a white mover with isSacrifice true and materialChangeCp -100,
\* when the evaluation after the played move is within 25 centipawns of the
\* one after the best move and at least 120 centipawns (evalBefore 30,
\* bestEvalAfter 140, playedEvalAfter 130), the result is BRILLIANT.
C19_StrongSacrifice ==
  (/\ Returned
   /\ input.sideToMove = "w" /\ Falsy(input.allowsMate)
   /\ input.isSacrifice = <<TRUE>> /\ input.materialChangeCp = <<Cp(-100)>>
   /\ PlainEvalsAfter(input)
   /\ Abs(LossAsGiven(input)) <= Cp(25)
   /\ input.playedEvalAfter.value >= Cp(120))
  => output.classification = "BRILLIANT"

\* C20 -- For a white mover with no flags set, when the evaluations after
\* the played move and after the best move differ by at most 10 centipawns
\* (evalBefore 20, bestEvalAfter 60, playedEvalAfter 55), the result is BEST
\* with deltaCp <= 10.
C20_TinyDifference ==
  (/\ Returned
   /\ input.sideToMove = "w" /\ NoFlags(input) /\ PlainEvalsAfter(input)
   /\ Abs(LossAsGiven(input)) <= Cp(10))
  => output.classification = "BEST" /\ output.deltaCp <= Cp(10)

\* The first case of the harness has been classified.
C20_Witness ==
  Returned /\ input = HarnessBest /\ output.classification = "BEST"

MaterialDrop(in) == OrElse(in.materialChangeCp, 0) <= Cp(-100)

\* C21 -- With allowsMate false and materialChangeCp <= -100, a deltaCp of
\* 120 or more gives MISTAKE or BLUNDER, and a deltaCp above 300 gives BLUNDER.
C21_MaterialFloor ==
  (Returned /\ Falsy(input.allowsMate) /\ MaterialDrop(input))
  => /\ output.deltaCp >= Cp(120) => output.classification \in {"MISTAKE", "BLUNDER"}
     /\ output.deltaCp > Cp(300) => output.classification = "BLUNDER"

\* A sacrifice that loses exactly 120 centipawns: INACCURACY by the
\* thresholds, MISTAKE after the floor.
C21_Witness ==
  /\ Returned /\ Falsy(input.allowsMate) /\ MaterialDrop(input)
  /\ input.isSacrifice = <<TRUE>>
  /\ output = [classification |-> "MISTAKE", deltaCp |-> Cp(120)]

Classifications ==
  {"BLUNDER", "MISTAKE", "INACCURACY", "GOOD", "EXCELLENT", "BEST", "BRILLIANT"}

\* C30 -- minSeverity(current, MISTAKE) never returns a classification
\* ranked higher than its input: BLUNDER and MISTAKE stay, every better one
\* becomes MISTAKE; so the result of classifyMove is never ranked better than
\* the threshold classification of its deltaCp unless it is BRILLIANT.
C30_FloorOnlyLowers ==
  /\ \A c \in Classifications :
       /\ severityRank(minSeverity(c, "MISTAKE")) <= severityRank(c)
       /\ minSeverity(c, "MISTAKE") = IF c \in {"BLUNDER", "MISTAKE"} THEN c ELSE "MISTAKE"
  /\ (Returned /\ output.classification # "BRILLIANT")
     => severityRank(output.classification)
          <= severityRank(thresholdClassification(output.deltaCp))

\* The floor was applied to a MISTAKE and to nothing worse: it stayed.
C30_Witness ==
  /\ Returned /\ Falsy(input.allowsMate) /\ MaterialDrop(input)
  /\ Cp(120) < output.deltaCp /\ output.deltaCp <= Cp(300)
  /\ thresholdClassification(output.deltaCp) = "MISTAKE"
  /\ output.classification = "MISTAKE"

\* ---------------------------------------------------------------- C23
\* C23: the result or error of an evaluation request is applied to the
\* displayed evaluation only if, since the request was issued, the position
\* did not change and no newer evaluation request was made.
C23_StaleResultDiscarded ==
  ui.shown # NoShown => ~ui.shown.changed

\* ---------------------------------------------------------------- C24
\* C24: a time-bounded search (go movetime) whose bestmove line arrives
\* within its movetimeMs budget is never rejected with a search timeout.
C24_WithinBudgetNotRejected ==
  (/\ output # NoOutput
   /\ GoOf(input.options).mode = "movetime"
   /\ input.arrivesAfterMs <= GoOf(input.options).n)
    => output.type # "error"

\* ---------------------------------------------------------------- C25
\* Reading a label: its characters, and the number its digits spell.
StartsWith(str, prefix) ==
  Len(str) >= Len(prefix) /\ SubSeq(str, 1, Len(prefix)) = prefix
DropFirst(str, k) == SubSeq(str, k + 1, Len(str))
IsDigit(ch) == \E d \in 0..9 : Digits[d + 1] = ch
AllDigits(str) ==
  Len(str) >= 1 /\ \A i \in 1..Len(str) : IsDigit(SubSeq(str, i, i))
RECURSIVE ParseNat(_)
ParseNat(str) ==
  IF Len(str) = 0 THEN 0
  ELSE 10 * ParseNat(SubSeq(str, 1, Len(str) - 1))
         + (CHOOSE d \in 0..9 : Digits[d + 1] = SubSeq(str, Len(str), Len(str)))
\* str is a decimal numeral with two decimals whose value is h / 100.
IsDecimal2(str, h) ==
  /\ Len(str) >= 4
  /\ SubSeq(str, Len(str) - 2, Len(str) - 2) = "."
  /\ AllDigits(SubSeq(str, 1, Len(str) - 3))
  /\ AllDigits(DropFirst(str, Len(str) - 2))
  /\ 100 * ParseNat(SubSeq(str, 1, Len(str) - 3)) + ParseNat(DropFirst(str, Len(str) - 2)) = h

\* C25: a centipawn score v is shown as v/100 with two decimals, with "+"
\* in front exactly when v > 0 and "-" exactly when v < 0 (50 is "+0.50",
\* 0 is "0.00"); a mate score n is shown as "M#" and |n|, with "-" in front
\* exactly when n < 0.
C25_ScoreLabel ==
  output # NoOutput =>
    LET label == output.scoreLabel
        v == input.value
        unsigned == IF StartsWith(label, "+") \/ StartsWith(label, "-")
                    THEN DropFirst(label, 1) ELSE label
    IN  /\ input = EngineScore("cp", 50) => label = "+0.50"
        /\ input = EngineScore("cp", 0) => label = "0.00"
        /\ input.type = "cp" =>
             /\ StartsWith(label, "+") <=> v > 0
             /\ StartsWith(label, "-") <=> v < 0
             /\ IsDecimal2(unsigned, Abs(v))
        /\ input.type = "mate" =>
             /\ ~StartsWith(label, "+")
             /\ StartsWith(label, "-") <=> v < 0
             /\ StartsWith(unsigned, "M#")
             /\ AllDigits(DropFirst(unsigned, 2))
             /\ ParseNat(DropFirst(unsigned, 2)) = Abs(v)

C25_Witness ==
  /\ input = EngineScore("cp", 50)
  /\ output # NoOutput
  /\ output.scoreLabel = "+0.50"

\* ---------------------------------------------------------------- C26
\* C26: the score and the principal variation an exchange returns come from
\* info lines of that exchange's own search: no info line produced by an
\* earlier exchange's search contributes to them.
C26_OwnInfoLinesOnly ==
  \A c \in Analyzes :
    calls[c].st = "resolved"
    => /\ calls[c].seen.score => calls[c].seen.scoreOf = calls[c].reqId
       /\ calls[c].seen.pv => calls[c].seen.pvOf = calls[c].reqId

\* ---------------------------------------------------------------- C27
\* What an engine line does to the waiters registered when it arrives.
LineHandled ==
  LET line == Trim(Head(engOut))
      matching == {w \in Range(lineWaiters) : Matches(w.match, line)}
  IN  /\ \A w \in matching :
           /\ w.wid \in resolvedW'
           /\ w \notin Range(lineWaiters')
           /\ w \notin timers'
           /\ w.cont = "analyze" =>
                \E j \in (Len(outbox) + 1)..Len(outbox') :
                  /\ outbox'[j].id = w.req
                  /\ outbox'[j].type = "analyze:ok"
                  /\ outbox'[j].bestmove = parseBestMove(line)
      /\ \A w \in Range(lineWaiters) \ matching :
           /\ w \in Range(lineWaiters')
           /\ w \in timers => w \in timers'
           /\ w.wid \notin resolvedW' \cup rejectedW'
      /\ matching = {} =>
           /\ engOut' = Tail(engOut)
           /\ UNCHANGED <<initPromise, joiners, lineWaiters, timers, nextWid>>
           /\ UNCHANGED <<inbox, outbox, engPos, engSearch, engInfos>>
           /\ UNCHANGED <<trace, resolvedW, rejectedW, reSettled>>

\* C27: a line resolves and removes every waiter whose predicate matches it,
\* not only the first; the other waiters stay registered with their timers
\* running; a line that matches no waiter changes only the score/PV cache.
C27_EveryMatchingWaiter == [][EngineLine => LineHandled]_vars

\* One bestmove line has resolved the waiters of two overlapping exchanges.
C27_Witness ==
  \E i, j \in 1..Len(outbox) :
    /\ i < j
    /\ outbox[i].type = "analyze:ok" /\ outbox[j].type = "analyze:ok"
    /\ outbox[i].id # outbox[j].id
    /\ outbox[i].go = outbox[j].go

\* ---------------------------------------------------------------- C28
\* The message a timed-out waiter must reject with.
ExpectedMessage(w) ==
  CASE w.cont = "hs1" -> "Timeout esperando \"uciok\" de Stockfish"
    [] w.cont \in {"hs2", "hs3"} -> "Timeout esperando \"readyok\" de Stockfish"
    [] w.cont = "analyze" -> "Timeout esperando \"bestmove\" de Stockfish"

\* The requests that wait on waiter w.
WaitingOn(w) ==
  IF w.cont = "analyze" THEN {w.req} ELSE {joiners[i].id : i \in 1..Len(joiners)}

\* A timer fires: every request waiting on its waiter is answered with an
\* error whose message names the awaited token, and nothing else is posted.
TimeoutAnswered ==
  \A w \in timers \ timers' :
    /\ \A id \in WaitingOn(w) :
         \E j \in (Len(outbox) + 1)..Len(outbox') : outbox'[j].id = id
    /\ \A j \in (Len(outbox) + 1)..Len(outbox') :
         /\ outbox'[j].id \in WaitingOn(w)
         /\ outbox'[j].type = "error"
         /\ outbox'[j].err = ExpectedMessage(w)

\* An error response is routed: the call that owns the pending entry is
\* rejected with the response's message.
ErrorDelivered ==
  LET msg == Head(outbox)
  IN  (msg.type = "error" /\ msg.id \in pending) =>
        \E c \in CallIds :
          /\ Unsettled(c) /\ RequestOf(c) = msg.id
          /\ calls'[c].st = "rejected"
          /\ calls'[c].err = msg.err

\* C28: a waiter that times out rejects with a message that names the
\* awaited token ("uciok", "readyok" for either probe, "bestmove"), and that
\* message is the rejection message of the caller of init()/analyzePosition().
C28_TimeoutNamesToken ==
  [][(Timeout => TimeoutAnswered) /\ (ClientReceive => ErrorDelivered)]_vars

\* One call failed on the handshake's readiness probe, another on its search.
C28_Witness ==
  \E a, b \in CallIds :
    /\ calls[a].st = "rejected"
    /\ calls[a].err = "Timeout esperando \"readyok\" de Stockfish"
    /\ calls[b].st = "rejected" /\ calls[b].kind = "analyze"
    /\ calls[b].err = "Timeout esperando \"bestmove\" de Stockfish"

\* ---------------------------------------------------------------- C29
\* The request ids call c has taken so far.
IdsOf(cs, c) == {cs[c].initId, cs[c].reqId} \ {0}

\* Every id taken is below nextId, and no id was taken twice.
IdsDistinct ==
  /\ pending \subseteq 1..(nextId - 1)
  /\ \A c \in CallIds :
       /\ IdsOf(calls, c) \subseteq 1..(nextId - 1)
       /\ (calls[c].initId # 0 /\ calls[c].reqId # 0) => calls[c].initId < calls[c].reqId
  /\ \A c, d \in CallIds : c # d => IdsOf(calls, c) \cap IdsOf(calls, d) = {}

\* A step takes its new ids from nextId upwards and keeps the ids taken.
IdsIncrease ==
  /\ nextId' >= nextId
  /\ \A c \in CallIds :
       /\ IdsOf(calls, c) \subseteq IdsOf(calls', c)
       /\ IdsOf(calls', c) \ IdsOf(calls, c) \subseteq nextId..(nextId' - 1)
  /\ \A c \in (1..Len(calls')) \ CallIds :
       IdsOf(calls', c) \subseteq nextId..(nextId' - 1)

\* A response is routed: it settles at most the call that owns the pending
\* entry of its id and removes that entry; with an unknown id it does nothing.
ResponseRouted ==
  LET msg == Head(outbox)
  IN  IF msg.id \in pending
      THEN /\ pending' \cap (1..(nextId - 1)) = pending \ {msg.id}
           /\ \E c \in CallIds :
                /\ Unsettled(c) /\ RequestOf(c) = msg.id
                /\ msg.type \in {"error", "analyze:ok"}
                     => calls'[c].st \in {"resolved", "rejected"}
           /\ \A c \in CallIds :
                (Unsettled(c) /\ calls'[c].st \in {"resolved", "rejected"})
                  => RequestOf(c) = msg.id
      ELSE UNCHANGED <<worker, nextId, pending, queue, running, initDone, inbox, gens, calls>>

\* A settled call stays as it is.
SettledStays == \A c \in CallIds : IsSettled(c) => calls'[c] = calls[c]

\* C29: request ids are strictly increasing and never reused, also across
\* dispose(); a response settles exactly the pending request registered
\* under its id; a request is settled at most once, by its response or by
\* dispose; a response with an id that is not pending is ignored.
C29_RequestIds ==
  [][/\ IdsDistinct /\ IdsDistinct'
     /\ IdsIncrease
     /\ ClientReceive => ResponseRouted
     /\ SettledStays]_vars

\* A request was rejected by dispose(), its late response was ignored, and a
\* request made afterwards, with a higher id, was answered.
C29_Witness ==
  \E c, d \in CallIds :
    /\ calls[c].st = "rejected" /\ calls[c].err = "closed"
    /\ calls[d].st = "resolved" /\ calls[d].kind = "analyze"
    /\ \A id \in IdsOf(calls, c) : id < calls[d].reqId
    /\ calls[d].gen = 2

\* ---------------------------------------------------------------- C31
\* The evaluations handed to classifyMove.
EvalsOf(in) == {in.evalBefore, in.bestEvalAfter, in.playedEvalAfter}

\* C31 -- A mate score counts as 100000 centipawns with the sign of the mate
\* value before it is re-signed; deltaCp never exceeds 200000; and a played
\* move after which the side to move mates (a mate against the mover), where
\* the best move's evaluation is a centipawn value of magnitude below 99700,
\* has a deltaCp above 300.
C31_MateMagnitude ==
  Returned =>
    /\ \A e \in EvalsOf(input) :
         e.type = "mate" =>
           /\ e.value > 0 => /\ evalToWhiteCp(e, "w") = 2 * 100000
                             /\ evalToWhiteCp(e, "b") = -(2 * 100000)
           /\ e.value < 0 => /\ evalToWhiteCp(e, "w") = -(2 * 100000)
                             /\ evalToWhiteCp(e, "b") = 2 * 100000
    /\ output.deltaCp <= 2 * 200000
    /\ (/\ input.playedEvalAfter.type = "mate" /\ input.playedEvalAfter.value > 0
        /\ input.bestEvalAfter.type = "number"
        /\ Abs(input.bestEvalAfter.value) < 2 * 99700)
         => output.deltaCp > 2 * 300

\* The narrowest case: the best move's evaluation is 99699 and the played
\* move allows a mate, which leaves a deltaCp of 301.
C31_Witness ==
  /\ Returned
  /\ input.playedEvalAfter = Mate(2)
  /\ input.bestEvalAfter = Number(Cp(99699))
  /\ output.deltaCp = Cp(301)

\* ---------------------------------------------------------------- C34
\* An evaluation as the side to move sees it, in (half) centipawns.
AsGiven(e) == evalToWhiteCp(e, "w")

WithoutMaterialChange(in) == [in EXCEPT !.materialChangeCp = <<0>>]

\* C35 -- With allowsMate and isSacrifice false, a material loss of 100 or
\* more changes the result only at a deltaCp of exactly 120 (INACCURACY
\* becomes MISTAKE); above 300 the threshold classification is BLUNDER
\* already.
C35_OverridesOnlyAt120 ==
  (Returned /\ Falsy(input.allowsMate) /\ Falsy(input.isSacrifice) /\ MaterialDrop(input))
  => /\ output.deltaCp # Cp(120) => output = classifyMove(WithoutMaterialChange(input))
     /\ output.deltaCp = Cp(120) =>
          /\ classifyMove(WithoutMaterialChange(input)).classification = "INACCURACY"
          /\ output.classification = "MISTAKE"
     /\ output.deltaCp > Cp(300) => thresholdClassification(output.deltaCp) = "BLUNDER"

\* A material loss at a deltaCp of 120, and one at a deltaCp above 300.
C35_Witness ==
  /\ Returned /\ Falsy(input.allowsMate) /\ Falsy(input.isSacrifice) /\ MaterialDrop(input)
  /\ output = [classification |-> "MISTAKE", deltaCp |-> Cp(120)]

\* ---------------------------------------------------------------- C32
\* C32 -- Once dispose() has returned, the client creates no worker and sends
\* no request until a caller invokes init() or analyzePosition() again: a
\* step that creates a worker or posts a request is a step in which a call
\* is made.
C32_QuietAfterDispose ==
  [][((worker = 0 /\ worker' # 0) \/ (worker = 0 /\ inbox' # <<>>))
       => Len(calls') = Len(calls) + 1]_vars

\* ---------------------------------------------------------------- C33
\* C33 -- Every init() and analyzePosition() call eventually settles,
\* whatever the engine writes or fails to write, provided timers fire: in a
\* run of SpecLive, whose calls are finitely many, a point comes after which
\* every call that was made has resolved or rejected.
C33_EveryCallSettles == <>[](\A c \in CallIds : IsSettled(c))

\* Both calls were made and both ended in a rejection: one by the timeout of
\* its search, one by dispose().
C33_Witness ==
  /\ Len(calls) = MaxCalls
  /\ \A c \in CallIds : IsSettled(c)
  /\ \E c \in CallIds : calls[c].st = "rejected" /\ calls[c].err = TimeoutMessage("bestmove")
  /\ \E c \in CallIds : calls[c].st = "rejected" /\ calls[c].err = "closed"

\* ---------------------------------------------------------------- C36
\* C36 -- After onAnalyze loads a new PGN, the result of an evaluation
\* requested for a position of the previously loaded game is never applied,
\* also when the new game has as many plies as the old one: the result on
\* display was requested for the start position or for a position of the
\* game that is loaded now.
C36_ResultOfLoadedGame ==
  (ui.shown # NoShown /\ ui.shown.fen # START_FEN) => ui.shown.fen[1] = ui.pgn

\* ---------------------------------------------------------------- C37
\* C37 -- The classified plies on display always belong to the PGN loaded
\* last, a PGN without moves included: the list is empty or it is the output
\* of the batch started for the PGN that is loaded now.
C37_ClassifiedOfLoadedGame ==
  ui.classifiedPlies # <<>> => ui.classifiedPlies = <<ui.pgn>>

\* ---------------------------------------------------------------- C38
\* C38 -- After any sequence of PGN loads and navigation actions currentPly
\* stays within 0..positions.length-1, and every navigation action
\* increments the evaluation version: once in onPositionChange, and once
\* more when the ply changed and the effect starts an evaluation.
PlyInRange == ui.currentPly \in 0..(ui.positions - 1)

Bumps(u, v) ==
  v.evalVersion - u.evalVersion =
    IF v.currentPly # u.currentPly /\ hasGameLoaded(v) THEN 2 ELSE 1

====
